---- MODULE Spec2Model ----
(***************************************************************************)
(* Incremental fetch-and-patch pipeline of the board scrapers              *)
(*   src/round/bk_data_ind.py        (script "ind",   7-field cells)       *)
(*   src/bk/bk_vis/bk_fetch_data.py  (script "fetch", 3-field cells)       *)
(* The persisted state is one wide CSV per script: rows = boards           *)
(* (row_key), columns = trade dates, one encoded cell per (board, date).   *)
(*                                                                         *)
(* Encoding of values                                                      *)
(*   board      an integer; the integer order stands for the               *)
(*              lexicographic order of the row_key "code|name"             *)
(*   date       an integer; the integer order is the calendar order        *)
(*   optional   <<>> is None / NaN / "", <<v>> is the value v              *)
(*   pct        integer hundredths of a percent (150 is 1.50)              *)
(*   close      integer ten-thousandths (52500 is 5.25)                    *)
(*   cell       the text of a CSV cell as a sequence of tokens: the        *)
(*              fields alternate with the separator "|"; <<>> is the       *)
(*              empty cell (pandas reads it back as NaN)                   *)
(***************************************************************************)
EXTENDS Integers, Sequences, FiniteSets, TLC

\* ---------------------------------------------------------------- bounds
MaxBoards == 2
MaxDate == 2
MaxRuns == 2

Boards == 1..MaxBoards
Dates == 1..MaxDate

\* ------------------------------------------------------- generic helpers
NA == <<>>
Some(v) == <<v>>

Range(s) == {s[i] : i \in DOMAIN s}

Injective(s) == \A i, j \in DOMAIN s : i # j => s[i] # s[j]

\* the position of x in the sequence s (s holds x)
IndexOf(s, x) == CHOOSE i \in DOMAIN s : s[i] = x

Min(S) == CHOOSE x \in S : \A y \in S : x <= y

RECURSIVE SortedSeq(_)
\* the elements of a finite set of integers in ascending order
SortedSeq(S) == IF S = {} THEN <<>>
                ELSE <<Min(S)>> \o SortedSeq(S \ {Min(S)})

\* the elements of s that are in S, in the order of s
Keep(s, S) == SelectSeq(s, LAMBDA x : x \in S)

\* ----------------------------------------------------------- cell text
Digit(n) == ToString(n)

\* f"{x:.2f}" of a value given in hundredths
Fixed2(v) ==
    LET a == IF v < 0 THEN 0 - v ELSE v
    IN  (IF v < 0 THEN "-" ELSE "") \o ToString(a \div 100) \o "."
            \o Digit((a \div 10) % 10) \o Digit(a % 10)

\* f"{x:.4f}".rstrip("0").rstrip(".") of a value given in ten-thousandths
Fixed4Stripped(v) ==
    LET a  == IF v < 0 THEN 0 - v ELSE v
        ip == (IF v < 0 THEN "-" ELSE "") \o ToString(a \div 10000)
        d1 == Digit((a \div 1000) % 10)
        d2 == Digit((a \div 100) % 10)
        d3 == Digit((a \div 10) % 10)
        d4 == Digit(a % 10)
    IN  IF a % 10000 = 0 THEN ip
        ELSE IF a % 1000 = 0 THEN ip \o "." \o d1
        ELSE IF a % 100 = 0 THEN ip \o "." \o d1 \o d2
        ELSE IF a % 10 = 0 THEN ip \o "." \o d1 \o d2 \o d3
        ELSE ip \o "." \o d1 \o d2 \o d3 \o d4

\* "|".join(parts)
Join(parts) ==
    [i \in 1..(2 * Len(parts) - 1) |->
        IF i % 2 = 1 THEN parts[(i + 1) \div 2] ELSE "|"]

EmptyCell == <<>>

\* fmt_cell of bk_fetch_data.py with the emptiness test on rank and pct only
fmt_cell_fetch_ignores_close(rank, pct, close) ==
    LET r == IF rank = NA THEN "" ELSE ToString(rank[1])
        p == IF pct = NA THEN "" ELSE Fixed2(pct[1])
        c == IF close = NA THEN "" ELSE Fixed4Stripped(close[1])
    IN  IF r = "" /\ p = "" THEN EmptyCell
        ELSE Join(<<r, p, c>>)

\* bk_fetch_data.py fmt_cell: rank|pct|close, "" when every field is missing
fmt_cell_fetch(rank, pct, close) ==
    LET r == IF rank = NA THEN "" ELSE ToString(rank[1])
        p == IF pct = NA THEN "" ELSE Fixed2(pct[1])
        c == IF close = NA THEN "" ELSE Fixed4Stripped(close[1])
    IN  IF r = "" /\ p = "" /\ c = "" THEN EmptyCell
        ELSE Join(<<r, p, c>>)

\* bk_data_ind.py fmt_cell: rank|pct|close|turnover|up|down|leader
fmt_cell_ind(rank, pct, close, turnover, up, down, leader) ==
    LET r == IF rank = NA THEN "" ELSE ToString(rank[1])
        p == IF pct = NA THEN "" ELSE Fixed2(pct[1])
        c == IF close = NA THEN "" ELSE Fixed4Stripped(close[1])
        t == IF turnover = NA THEN "" ELSE Fixed2(turnover[1])
        u == IF up = NA THEN "" ELSE ToString(up[1])
        d == IF down = NA THEN "" ELSE ToString(down[1])
        l == IF leader = NA THEN "" ELSE leader[1]
        parts == <<r, p, c, t, u, d, l>>
    IN  IF \A i \in DOMAIN parts : parts[i] = "" THEN EmptyCell
        ELSE Join(parts)

\* Series.rank(ascending=False, method="min"): tied values share a rank
rank_min(pcts, i) ==
    IF pcts[i] = NA THEN NA
    ELSE Some(1
         + Cardinality({j \in DOMAIN pcts :
                            pcts[j] # NA /\ pcts[j][1] > pcts[i][1]}))

\* Series.rank(ascending=False, method="first") at position i of the column
\* pcts: NaN stays NaN, a higher value ranks first, ties keep input order
rank_first(pcts, i) ==
    IF pcts[i] = NA THEN NA
    ELSE Some(1
         + Cardinality({j \in DOMAIN pcts :
                            pcts[j] # NA /\ pcts[j][1] > pcts[i][1]})
         + Cardinality({j \in DOMAIN pcts : j < i /\ pcts[j] = pcts[i]}))

\* ---------------------------------------------------------- wide table
\* a DataFrame / CSV: ordered row index, ordered columns, cells
Table(rows, cols, cell) ==
    [exists |-> TRUE, rows |-> rows, cols |-> cols,
     cell |-> [b \in Range(rows) |-> [d \in Range(cols) |-> cell[b][d]]]]

\* no file on disk; read as pd.DataFrame()
NoTable == [exists |-> FALSE, rows |-> <<>>, cols |-> <<>>,
            cell |-> [b \in {} |-> [d \in {} |-> EmptyCell]]]

RowSet(t) == Range(t.rows)
ColSet(t) == Range(t.cols)

\* the cell of board b at date d; a missing row or column reads as empty
CellAt(t, b, d) ==
    IF b \in RowSet(t) /\ d \in ColSet(t) THEN t.cell[b][d] ELSE EmptyCell

\* DataFrame.empty: an axis of length 0
df_empty(t) == t.rows = <<>> \/ t.cols = <<>>

\* DataFrame.reindex(all_index): exactly the rows of all_index, in that
\* order; a row the table did not have is all-NaN, a row not in all_index
\* is dropped
reindex(t, all_index) ==
    Table(all_index, t.cols,
          [b \in Range(all_index) |-> [d \in ColSet(t) |-> CellAt(t, b, d)]])

\* sort_date_cols without the sort: a new today column stays last
sort_date_cols_unsorted(cols) == cols

\* the date columns sorted by date (patch_today, "列排序")
sort_date_cols(cols) == SortedSeq(Range(cols))

\* ------------------------------------------------------- today's column
\* one row of df_today
TodayRow(bk, pct, close, turnover, up, down, leader) ==
    [bk |-> bk, pct |-> pct, close |-> close, turnover |-> turnover,
     up_count |-> up, down_count |-> down, leader |-> leader]

\* df_today["bk_code"] + "|" + df_today["bk_name"], as a set
RowKeys(df) == {df[i].bk : i \in DOMAIN df}

\* bk_data_ind.py patch_today, step 1: df_today["cell_new"] at position i
cell_new_ind(df, i) ==
    LET pcts == [k \in DOMAIN df |-> df[k].pct]
        rank == IF \E k \in DOMAIN df : pcts[k] # NA
                THEN rank_first(pcts, i) ELSE NA
    IN  fmt_cell_ind(rank, df[i].pct, df[i].close, df[i].turnover,
                     df[i].up_count, df[i].down_count, df[i].leader)

\* bk_fetch_data.py patch_today: df_today["cell_new"] at position i
cell_new_fetch(df, i) ==
    LET pcts == [k \in DOMAIN df |-> df[k].pct]
        rank == IF \E k \in DOMAIN df : pcts[k] # NA
                THEN rank_first(pcts, i) ELSE NA
    IN  fmt_cell_fetch(rank, df[i].pct, df[i].close)

\* the outcome of a call that may raise
Returned(t) == [raised |-> FALSE, table |-> t]
Raised == [raised |-> TRUE, table |-> NoTable]

\* patch_today of bk_data_ind.py without step 3: boards that are new today
\* get no row
patch_today_ind_no_append(wide, df, today_col) ==
    LET keys == RowKeys(df)
        new_series(b) == cell_new_ind(df, CHOOSE i \in DOMAIN df : df[i].bk = b)
        cols2 == IF today_col \in ColSet(wide) THEN wide.cols
                 ELSE Append(wide.cols, today_col)
        mask(b) == b \in keys /\ new_series(b) # EmptyCell
        cell == [b \in RowSet(wide) |-> [d \in Range(cols2) |->
                    IF d = today_col /\ mask(b) THEN new_series(b)
                    ELSE CellAt(wide, b, d)]]
    IN  Returned(Table(wide.rows, sort_date_cols(cols2), cell))

\* patch_today of bk_data_ind.py with step 3 appending every returned board
\* (new_series.index instead of its difference with wide.index)
patch_today_ind_append_all(wide, df, today_col) ==
    LET keys == RowKeys(df)
        new_series(b) == cell_new_ind(df, CHOOSE i \in DOMAIN df : df[i].bk = b)
        rows2 == wide.rows \o SortedSeq(keys)
        cols2 == IF today_col \in ColSet(wide) THEN wide.cols
                 ELSE Append(wide.cols, today_col)
        mask(b) == b \in keys /\ new_series(b) # EmptyCell
        cell == [b \in Range(rows2) |-> [d \in Range(cols2) |->
                    IF d = today_col /\ mask(b) THEN new_series(b)
                    ELSE CellAt(wide, b, d)]]
    IN  Returned(Table(rows2, sort_date_cols(cols2), cell))

\* bk_data_ind.py patch_today: the table it writes to the CSV
patch_today_ind(wide, df, today_col) ==
    LET keys == RowKeys(df)
        new_series(b) == cell_new_ind(df, CHOOSE i \in DOMAIN df : df[i].bk = b)
        \* 3. append the new boards (Index.difference is sorted)
        new_keys == SortedSeq(keys \ RowSet(wide))
        rows2 == wide.rows \o new_keys
        \* 4. the today column, created empty when missing
        cols2 == IF today_col \in ColSet(wide) THEN wide.cols
                 ELSE Append(wide.cols, today_col)
        mask(b) == b \in keys /\ new_series(b) # EmptyCell
        cell == [b \in Range(rows2) |-> [d \in Range(cols2) |->
                    IF d = today_col /\ mask(b) THEN new_series(b)
                    ELSE CellAt(wide, b, d)]]
    IN  \* 5. sort the date columns, write
        Returned(Table(rows2, sort_date_cols(cols2), cell))

\* bk_fetch_data.py patch_today: the table it writes, or the IndexingError
\* of combined.loc[mask] when a row of wide has no entry in the mask
patch_today_fetch(wide, df, today_col) ==
    LET keys == RowKeys(df)
        series_new(b) == cell_new_fetch(df, CHOOSE i \in DOMAIN df : df[i].bk = b)
    IN  IF today_col \notin ColSet(wide)
        THEN \* wide[today_col] = series_new : aligned on wide.index
             LET cols2 == Append(wide.cols, today_col)
                 cell == [b \in RowSet(wide) |-> [d \in Range(cols2) |->
                            IF d = today_col
                            THEN (IF b \in keys THEN series_new(b) ELSE EmptyCell)
                            ELSE CellAt(wide, b, d)]]
             IN  Returned(Table(wide.rows, sort_date_cols(cols2), cell))
        ELSE IF \E b \in RowSet(wide) : b \notin keys
        THEN Raised
        ELSE LET mask(b) == series_new(b) # EmptyCell
                 cell == [b \in RowSet(wide) |-> [d \in ColSet(wide) |->
                            IF d = today_col /\ mask(b) THEN series_new(b)
                            ELSE CellAt(wide, b, d)]]
             IN  Returned(Table(wide.rows, sort_date_cols(wide.cols), cell))

patch_today(scr, wide, df, today_col) ==
    IF scr = "ind" THEN patch_today_ind(wide, df, today_col)
    ELSE patch_today_fetch(wide, df, today_col)

\* ------------------------------------------------------------- baseline
\* all_rows: one entry [bk, recs] per fetched board, recs a function from
\* the dates of its klines to [pct, close]
\* the rank of entry i within the group of trade_date d
baseline_rank(all_rows, i, d) ==
    LET members == Keep([k \in DOMAIN all_rows |-> k],
                        {k \in DOMAIN all_rows : d \in DOMAIN all_rows[k].recs})
        pcts == [k \in DOMAIN members |-> all_rows[members[k]].recs[d].pct]
    IN  rank_first(pcts, IndexOf(members, i))

\* write_baseline: rank per date, encode, pivot to rows = row_key (sorted),
\* columns = trade_date (sorted)
write_baseline(scr, all_rows) ==
    LET bks == {all_rows[i].bk : i \in DOMAIN all_rows}
        dts == UNION {DOMAIN all_rows[i].recs : i \in DOMAIN all_rows}
        at(b) == CHOOSE i \in DOMAIN all_rows : all_rows[i].bk = b
        enc(i, d) ==
            LET r == all_rows[i].recs[d]
                rk == baseline_rank(all_rows, i, d)
            IN  IF scr = "ind"
                THEN fmt_cell_ind(rk, r.pct, r.close, NA, NA, NA, NA)
                ELSE fmt_cell_fetch(rk, r.pct, r.close)
        cell == [b \in bks |-> [d \in dts |->
                    IF d \in DOMAIN all_rows[at(b)].recs
                    THEN enc(at(b), d) ELSE EmptyCell]]
    IN  Table(SortedSeq(bks), SortedSeq(dts), cell)

\* ----------------------------------------------------- provider inputs
\* what a kline record can carry
KlineQuotes ==
    { [pct |-> NA, close |-> NA],
      [pct |-> Some(150), close |-> Some(50000)] }

\* the records of one kline request for the dates lo..hi: one quote on a
\* set of dates of the range (the empty set: no klines)
KlineResults(lo, hi) ==
    {[d \in D |-> q] : D \in SUBSET (lo..hi), q \in KlineQuotes}

\* the entries of one clist/get answer, as fetch_board_list_today keeps them
ListItems(scr) ==
    { [pct |-> NA, close |-> NA, turnover |-> NA, up |-> NA, down |-> NA,
       leader |-> NA],
      [pct |-> Some(250), close |-> Some(52500), turnover |-> NA, up |-> NA,
       down |-> NA, leader |-> NA],
      IF scr = "ind"
      THEN [pct |-> Some(150), close |-> Some(50000), turnover |-> Some(120),
            up |-> Some(3), down |-> Some(1), leader |-> Some("L")]
      ELSE [pct |-> Some(150), close |-> Some(50000), turnover |-> NA,
            up |-> NA, down |-> NA, leader |-> NA] }

\* the board lists of fetch_board_list_basic: distinct boards, any order
BoardLists ==
    {s \in UNION {[1..n -> Boards] : n \in 0..MaxBoards} : Injective(s)}

\* the frames of fetch_board_list_today: distinct boards, any order
TodayFrames(scr) ==
    {[i \in DOMAIN s |->
        TodayRow(s[i], it[i].pct, it[i].close, it[i].turnover, it[i].up,
                 it[i].down, it[i].leader)] :
        s \in BoardLists, it \in [1..MaxBoards -> ListItems(scr)]}

\* ------------------------------------------------------------- the state
VARIABLES
    script,        \* which script owns the CSV: "ind" or "fetch"
    csv,           \* the file out_csv (NoTable: no file)
    pc,            \* position of the running build_csv ("idle": none)
    branch,        \* the path build_csv took: "baseline", "list", "his"
    today_col,     \* build_csv: today_col
    wide,          \* build_csv: the table read from out_csv
    boards,        \* build_csv: boards
    idx,           \* build_csv: position of the per-board loop (i, j)
    all_rows,      \* build_csv: all_rows (baseline)
    rows_today,    \* build_csv: rows_today, in insertion order
    fails,         \* build_csv: fails
    INTERRUPTED,   \* the module global set by the SIGINT handler
    df_today,      \* build_csv: df_today
    err,           \* where an exception was raised: "none", "list", "patch"
    exit_status,   \* "none", "normal" (returned), "exception" (propagated)
                   \* or "killed"
    wrote,         \* the run has written out_csv
    runs           \* the number of runs started so far

\* history: how many times the per-board fetch of build_csv ran for each
\* board in the current run
VARIABLES tried

\* history: per board, what its Pass 1 and Pass 2 fetches of the current run
\* brought, in order: NA for a fetch that failed, Some(quote) otherwise
VARIABLES fetch_log

\* the paginated list fetch (fetch_board_list_basic / fetch_board_list_today
\* of bk_data_ind.py)
VARIABLES
    listed,        \* the boards the provider lists during the call
    pn,            \* the page number of the next request
    seen,          \* seen
    rows,          \* all_rows / rows: the boards kept so far, in order
    list_pc,       \* "idle", "paging", "done", "raised"
    requests       \* history: the requests of the call, in order

\* rank_get_value.py build_csv
VARIABLES
    rv_pc,         \* position: "idle", "phase1", "phase2", "assemble", "exit"
    out_csv,       \* the file out_csv of rank_get_value.py
    prev_csv,      \* history: out_csv as it was when the run started
    slow_rounds,   \* args.slow_rounds
    rv_boards,     \* boards
    completed,     \* the futures as_completed has yielded so far
    results,       \* results, in insertion order
    rv_fails,      \* fails
    next_fails,    \* next_fails
    round,         \* _round
    pos,           \* position in fails of the inner loop of Phase 2
    slow_calls,    \* history: slow-mode calls of fetch_one_board per board
    rv_err         \* build_csv raised

\* one cell through a writer (fmt_cell) and a reader (parse_triplet)
VARIABLES
    cell_pc,       \* "args", "cell", "parsed"
    writer,        \* the script whose fmt_cell writes the cell
    reader,        \* the script whose parse_triplet reads it
    args,          \* the arguments of fmt_cell
    cell_text,     \* the text fmt_cell returned
    triplet        \* what parse_triplet returned

\* one date column through the ranking of a writer
VARIABLES
    col_pc,        \* "input", "written"
    col_by,        \* the writer: "patch_ind", "patch_fetch", "baseline", "rank_get_value"
    col_in,        \* the boards and pcts of the date, in input order
    col_out        \* the cells the writer produced for the date

\* one per-board loop of build_csv (baseline, Pass 1 or Pass 2) with its
\* retry loop, attempt by attempt
VARIABLES
    loop_pc,        \* "idle", "iter", "try", "after", "end"
    loop_kind,      \* "baseline", "pass1", "pass2"
    loop_n,         \* number of boards the loop goes through
    loop_i,         \* position of the current board
    attempt,        \* calls of _fetch_range made for the current board
    backoff,        \* backoff, in tenths of a second
    fetch_ok,       \* ok
    fetch_recs,     \* len(recs) of the attempt that returned
    slept,          \* history: the sleeps after the raising attempts
    consec_fail,    \* consec_fail
    cooldown_after, \* cooldown_after
    events          \* history: "ok", "fail", "cooldown" of the loop so far

loopVars == <<loop_pc, loop_kind, loop_n, loop_i, attempt, backoff, fetch_ok,
              fetch_recs, slept, consec_fail, cooldown_after, events>>
pagingVars == <<listed, pn, seen, rows, list_pc, requests>>
rvVars == <<rv_pc, out_csv, prev_csv, slow_rounds, rv_boards, completed,
            results, rv_fails, next_fails, round, pos, slow_calls, rv_err>>
cellVars == <<cell_pc, writer, reader, args, cell_text, triplet>>
colVars == <<col_pc, col_by, col_in, col_out>>
mainVars == <<script, csv, pc, branch, today_col, wide, boards, idx, all_rows,
              rows_today, fails, INTERRUPTED, df_today, err, exit_status,
              wrote, runs, tried, fetch_log>>

\* everything outside build_csv of bk_data_ind.py / bk_fetch_data.py
\* one call of fetch_one_board of rank_get_value.py, attempt by attempt
VARIABLES
    fo_pc,          \* "idle", "try", "returned", "raised"
    slow_mode,      \* slow_mode
    fo_log,         \* history: the attempts so far, see Attempt
    fo_df           \* what the call returned: "none", "frame", "empty"

foVars == <<fo_pc, slow_mode, fo_log, fo_df>>

\* Phase 1 and Phase 2 of rank_get_value.py build_csv, thread by thread
VARIABLES
    pool_pc,        \* main thread: "idle", "submit", "collect", "phase2", "done"
    pool_boards,    \* boards
    max_workers,    \* max_workers
    next_sub,       \* position in boards of the next ex.submit
    task,           \* per board, its future: "none", "queued", "running",
                    \* "frame" (done, non-empty df), "empty" (done, empty df)
    submits,        \* history: per board, the calls of ex.submit
    yielded,        \* the boards whose future as_completed has yielded
    pool_results,   \* the keys of results
    pool_fails,     \* fails
    pool_next,      \* next_fails
    pool_round,     \* _round
    pool_pos        \* position in fails of the inner loop of Phase 2

poolVars == <<pool_pc, pool_boards, max_workers, next_sub, task, submits,
              yielded, pool_results, pool_fails, pool_next, pool_round,
              pool_pos>>

\* one sheet of the Excel report of bk_day_backup.py / "bk_day copy.py" /
\* bk_day_con.py
VARIABLES
    xl_script,      \* "bk_day_backup", "bk_day copy", "bk_day_con"
    sheet,          \* the columns of the sheet, <<>> while there is no file
    xl_runs         \* the report runs so far

xlVars == <<xl_script, sheet, xl_runs>>

\* the machines beside the five first ones
moreVars == <<loopVars, foVars, poolVars, xlVars>>

sideVars == <<pagingVars, rvVars, cellVars, colVars, moreVars>>

vars == <<script, csv, pc, branch, today_col, wide, boards, idx, all_rows,
          rows_today, fails, INTERRUPTED, df_today, err, exit_status, wrote,
          runs, tried, fetch_log, sideVars>>

\* no paginated list fetch is under way
PagingIdle ==
    /\ listed = {} /\ pn = 0 /\ seen = {} /\ rows = <<>> /\ list_pc = "idle"
    /\ requests = <<>>

\* rank_get_value.py is not run and has no file
RvIdle ==
    /\ rv_pc = "idle" /\ out_csv = NoTable /\ prev_csv = NoTable
    /\ slow_rounds = 0 /\ rv_boards = <<>> /\ completed = {}
    /\ results = <<>> /\ rv_fails = <<>> /\ next_fails = <<>>
    /\ round = 0 /\ pos = 0 /\ slow_calls = [b \in Boards |-> 0]
    /\ rv_err = FALSE

\* no cell is being written or read
CellIdle ==
    /\ cell_pc = "idle" /\ writer = "none" /\ reader = "none"
    /\ args = <<>> /\ cell_text = <<>> /\ triplet = <<>>

\* no column is being ranked
ColIdle ==
    /\ col_pc = "idle" /\ col_by = "none" /\ col_in = <<>> /\ col_out = <<>>

\* no per-board loop is observed attempt by attempt
LoopIdle ==
    /\ loop_pc = "idle" /\ loop_kind = "none" /\ loop_n = 0 /\ loop_i = 0
    /\ attempt = 0 /\ backoff = 0 /\ fetch_ok = FALSE /\ fetch_recs = 0
    /\ slept = <<>> /\ consec_fail = 0 /\ cooldown_after = 0
    /\ events = <<>>

\* fetch_one_board is not observed
FoIdle ==
    /\ fo_pc = "idle" /\ slow_mode = FALSE /\ fo_log = <<>> /\ fo_df = "none"

\* the thread pool is not observed
PoolIdle ==
    /\ pool_pc = "idle" /\ pool_boards = <<>> /\ max_workers = 0
    /\ next_sub = 0 /\ task = <<>> /\ submits = <<>> /\ yielded = {}
    /\ pool_results = {} /\ pool_fails = <<>> /\ pool_next = <<>>
    /\ pool_round = 0 /\ pool_pos = 0

\* no Excel report is observed
XlIdle == xl_script = "none" /\ sheet = <<>> /\ xl_runs = 0

MoreIdle == LoopIdle /\ FoIdle /\ PoolIdle /\ XlIdle

\* build_csv of bk_data_ind.py / bk_fetch_data.py is not run, no file
MainIdle ==
    /\ script = "ind" /\ csv = NoTable /\ pc = "idle" /\ branch = "none"
    /\ today_col = 0 /\ wide = NoTable /\ boards = <<>> /\ idx = 0
    /\ all_rows = <<>> /\ rows_today = <<>> /\ fails = <<>>
    /\ INTERRUPTED = FALSE /\ df_today = <<>> /\ err = "none"
    /\ exit_status = "none" /\ wrote = FALSE /\ runs = 0
    /\ tried = [b \in Boards |-> 0]
    /\ fetch_log = [b \in Boards |-> <<>>]

Init ==
    /\ script \in {"ind", "fetch"}
    /\ csv = NoTable
    /\ pc = "idle"
    /\ branch = "none"
    /\ today_col = 0
    /\ wide = NoTable
    /\ boards = <<>>
    /\ idx = 0
    /\ all_rows = <<>>
    /\ rows_today = <<>>
    /\ fails = <<>>
    /\ INTERRUPTED = FALSE
    /\ df_today = <<>>
    /\ err = "none"
    /\ exit_status = "none"
    /\ wrote = FALSE
    /\ runs = 0
    /\ tried = [b \in Boards |-> 0]
    /\ fetch_log = [b \in Boards |-> <<>>]
    /\ PagingIdle /\ RvIdle /\ CellIdle /\ ColIdle /\ MoreIdle

\* ------------------------------------------------------------ build_csv
\* the if-chain of build_csv with the baseline taken whenever his mode is
\* asked for
choose_branch_his_rebuilds(w, today_mode) ==
    IF df_empty(w) \/ today_mode = "his" THEN "baseline"
    ELSE "list"

\* the if-chain of build_csv on the table it read
choose_branch(w, today_mode) ==
    IF df_empty(w) THEN "baseline"
    ELSE IF today_mode = "list" THEN "list"
    ELSE "his"

\* the table handed to patch_today: list mode passes the table as read, his
\* mode first conforms it to the listed boards (wide.reindex(all_index))
patch_input(br, w, bl) == IF br = "his" THEN reindex(w, bl) ELSE w

\* a process starts: read the old CSV, pick the path
StartRun ==
    /\ pc = "idle"
    /\ runs < MaxRuns
    /\ runs' = runs + 1
    /\ wide' = csv
    /\ \E today_mode \in {"list", "his"}, today \in Dates :
         /\ today_col' = today
         /\ branch' = choose_branch(csv, today_mode)
         /\ pc' = IF choose_branch(csv, today_mode) = "list"
                  THEN "list" ELSE "boards"
    /\ exit_status' = "none"
    /\ UNCHANGED <<sideVars, tried, fetch_log, script, csv, boards, idx, all_rows,
                   rows_today, fails, INTERRUPTED, df_today, err, wrote>>

\* SIGINT while a per-board loop runs
sigint_handler ==
    /\ pc \in {"baseline", "pass1", "pass2"}
    /\ ~INTERRUPTED
    /\ INTERRUPTED' = TRUE
    /\ UNCHANGED <<sideVars, tried, fetch_log,
                   runs, script, csv, pc, branch, today_col, wide, boards, idx,
                   all_rows, rows_today, fails, df_today, err, exit_status,
                   wrote>>

\* fetch_board_list_basic raises (raise_for_status, connection error): the
\* exception leaves build_csv
BoardListRaises ==
    /\ pc = "boards"
    /\ pc' = "exit"
    /\ err' = "list"
    /\ exit_status' = "exception"
    /\ UNCHANGED <<sideVars, tried, fetch_log,
                   runs, script, csv, branch, today_col, wide, boards, idx,
                   all_rows, rows_today, fails, INTERRUPTED, df_today, wrote>>

\* fetch_board_list_basic returns the board list
BoardListReturns ==
    /\ pc = "boards"
    /\ \E bl \in BoardLists : boards' = bl
    /\ idx' = 1
    /\ pc' = IF branch = "baseline" THEN "baseline" ELSE "pass1"
    /\ UNCHANGED <<sideVars, tried, fetch_log,
                   runs, script, csv, branch, today_col, wide, all_rows,
                   rows_today, fails, INTERRUPTED, df_today, err,
                   exit_status, wrote>>

\* one iteration of the baseline loop: the kline request of boards[idx]
\* raised on every attempt, or returned recs
BaselineStep ==
    /\ pc = "baseline"
    /\ idx <= Len(boards)
    /\ ~INTERRUPTED
    /\ \E raised \in BOOLEAN, recs \in KlineResults(1, today_col) :
         all_rows' = IF ~raised /\ DOMAIN recs # {}
                     THEN Append(all_rows, [bk |-> boards[idx], recs |-> recs])
                     ELSE all_rows
    /\ idx' = idx + 1
    /\ tried' = [tried EXCEPT ![boards[idx]] = @ + 1]
    /\ UNCHANGED <<sideVars, fetch_log,
                   runs, script, csv, pc, branch, today_col, wide, boards,
                   rows_today, fails, INTERRUPTED, df_today, err,
                   exit_status, wrote>>

\* the baseline loop is over (exhausted or interrupted): write, return
BaselineWrite ==
    /\ pc = "baseline"
    /\ idx > Len(boards) \/ INTERRUPTED
    /\ IF all_rows # <<>>
       THEN csv' = write_baseline(script, all_rows) /\ wrote' = TRUE
       ELSE UNCHANGED <<csv, wrote>>
    /\ pc' = "exit"
    /\ exit_status' = "normal"
    /\ UNCHANGED <<sideVars, tried, fetch_log,
                   runs, script, branch, today_col, wide, boards, idx, all_rows,
                   rows_today, fails, INTERRUPTED, df_today, err>>

\* list mode without the try/except: the exception of the request leaves
\* build_csv
ListRaisesUncaught ==
    /\ pc = "list"
    /\ err' = "list"
    /\ pc' = "exit"
    /\ exit_status' = "exception"
    /\ UNCHANGED <<sideVars, tried, fetch_log,
                   runs, script, csv, branch, today_col, wide, boards, idx,
                   all_rows, rows_today, fails, INTERRUPTED, df_today, wrote>>

\* list mode, the request raises: caught by except Exception, nothing written
ListRaises ==
    /\ pc = "list"
    /\ err' = "list"
    /\ pc' = "exit"
    /\ exit_status' = "normal"
    /\ UNCHANGED <<sideVars, tried, fetch_log,
                   runs, script, csv, branch, today_col, wide, boards, idx,
                   all_rows, rows_today, fails, INTERRUPTED, df_today, wrote>>

\* list mode, the request returns df: patch unless df is empty; an
\* exception of patch_today is caught as well
ListReturns ==
    /\ pc = "list"
    /\ \E df \in TodayFrames(script) :
         /\ df_today' = df
         /\ LET res == patch_today(script, patch_input(branch, wide, boards),
                                   df, today_col)
            IN  IF df = <<>> THEN UNCHANGED <<csv, wrote, err>>
                ELSE IF res.raised
                THEN err' = "patch" /\ UNCHANGED <<csv, wrote>>
                ELSE csv' = res.table /\ wrote' = TRUE /\ UNCHANGED err
    /\ pc' = "exit"
    /\ exit_status' = "normal"
    /\ UNCHANGED <<sideVars, tried, fetch_log,
                   runs, script, branch, today_col, wide, boards, idx, all_rows,
                   rows_today, fails, INTERRUPTED>>

\* the dict built for boards[idx] in Pass 1 / Pass 2
RowOf(bk, ok, recs) ==
    IF ok THEN TodayRow(bk, recs[today_col].pct, recs[today_col].close,
                        NA, NA, NA, NA)
    ELSE TodayRow(bk, NA, NA, NA, NA, NA, NA)

\* one iteration of Pass 1
Pass1Step ==
    /\ pc = "pass1"
    /\ idx <= Len(boards)
    /\ ~INTERRUPTED
    /\ \E raised \in BOOLEAN, recs \in KlineResults(today_col, today_col) :
         LET ok == ~raised /\ DOMAIN recs # {}
         IN  /\ rows_today' = Append(rows_today, RowOf(boards[idx], ok, recs))
             /\ fails' = IF ok THEN fails ELSE Append(fails, boards[idx])
             /\ fetch_log' = [fetch_log EXCEPT ![boards[idx]] =
                    Append(@, IF ok THEN Some(recs[today_col]) ELSE NA)]
    /\ idx' = idx + 1
    /\ tried' = [tried EXCEPT ![boards[idx]] = @ + 1]
    /\ UNCHANGED <<sideVars,
                   runs, script, csv, pc, branch, today_col, wide, boards,
                   all_rows, INTERRUPTED, df_today, err, exit_status, wrote>>

\* Pass2Start with the partial today column flushed before Pass 2 begins
Pass2StartFlushes ==
    /\ pc = "pass1"
    /\ idx > Len(boards)
    /\ fails # <<>> /\ ~INTERRUPTED
    /\ LET res == patch_today(script, patch_input(branch, wide, boards),
                              rows_today, today_col)
       IN  csv' = IF res.raised THEN csv ELSE res.table
    /\ wrote' = TRUE
    /\ pc' = "pass2"
    /\ idx' = 1
    /\ UNCHANGED <<sideVars, tried, fetch_log,
                   runs, script, branch, today_col, wide, boards, all_rows,
                   rows_today, fails, INTERRUPTED, df_today, err,
                   exit_status>>

\* Pass 1 is over with failures and no interrupt: Pass 2 starts
Pass2Start ==
    /\ pc = "pass1"
    /\ idx > Len(boards)
    /\ fails # <<>> /\ ~INTERRUPTED
    /\ pc' = "pass2"
    /\ idx' = 1
    /\ UNCHANGED <<sideVars, tried, fetch_log,
                   runs, script, csv, branch, today_col, wide, boards, all_rows,
                   rows_today, fails, INTERRUPTED, df_today, err,
                   exit_status, wrote>>

\* one iteration of Pass 2 that never touches rows_today
Pass2StepKeepsPlaceholder ==
    /\ pc = "pass2"
    /\ idx <= Len(fails)
    /\ ~INTERRUPTED
    /\ \E raised \in BOOLEAN, recs \in KlineResults(today_col, today_col) :
         LET ok == ~raised /\ DOMAIN recs # {}
             k == CHOOSE i \in DOMAIN rows_today : rows_today[i].bk = fails[idx]
         IN  /\ rows_today' = rows_today
             /\ fetch_log' = [fetch_log EXCEPT ![fails[idx]] =
                    Append(@, IF ok THEN Some(recs[today_col]) ELSE NA)]
    /\ idx' = idx + 1
    /\ tried' = [tried EXCEPT ![fails[idx]] = @ + 1]
    /\ UNCHANGED <<sideVars,
                   runs, script, csv, pc, branch, today_col, wide, boards,
                   all_rows, fails, INTERRUPTED, df_today, err, exit_status,
                   wrote>>

\* one iteration of Pass 2: a success replaces the placeholder of fails[idx]
Pass2Step ==
    /\ pc = "pass2"
    /\ idx <= Len(fails)
    /\ ~INTERRUPTED
    /\ \E raised \in BOOLEAN, recs \in KlineResults(today_col, today_col) :
         LET ok == ~raised /\ DOMAIN recs # {}
             k == CHOOSE i \in DOMAIN rows_today : rows_today[i].bk = fails[idx]
         IN  /\ rows_today' = IF ok
                              THEN [rows_today EXCEPT
                                      ![k] = RowOf(fails[idx], ok, recs)]
                              ELSE rows_today
             /\ fetch_log' = [fetch_log EXCEPT ![fails[idx]] =
                    Append(@, IF ok THEN Some(recs[today_col]) ELSE NA)]
    /\ idx' = idx + 1
    /\ tried' = [tried EXCEPT ![fails[idx]] = @ + 1]
    /\ UNCHANGED <<sideVars,
                   runs, script, csv, pc, branch, today_col, wide, boards,
                   all_rows, fails, INTERRUPTED, df_today, err, exit_status,
                   wrote>>

\* his mode, "写回": reindex wide to the listed boards, patch unless nothing
\* was fetched; an exception of patch_today leaves build_csv
WriteBack ==
    /\ \/ pc = "pass1" /\ (INTERRUPTED \/ (idx > Len(boards) /\ fails = <<>>))
       \/ pc = "pass2" /\ (INTERRUPTED \/ idx > Len(fails))
    /\ df_today' = rows_today
    /\ LET res == patch_today(script, patch_input(branch, wide, boards),
                              rows_today, today_col)
       IN  IF rows_today = <<>>
           THEN exit_status' = "normal" /\ UNCHANGED <<csv, wrote, err>>
           ELSE IF res.raised
           THEN exit_status' = "exception" /\ err' = "patch"
                /\ UNCHANGED <<csv, wrote>>
           ELSE exit_status' = "normal" /\ csv' = res.table /\ wrote' = TRUE
                /\ UNCHANGED err
    /\ pc' = "exit"
    /\ UNCHANGED <<sideVars, tried, fetch_log,
                   runs, script, branch, today_col, wide, boards, idx, all_rows,
                   rows_today, fails, INTERRUPTED>>

\* the process ends; the next run starts from fresh globals and locals
Exit ==
    /\ pc = "exit"
    /\ pc' = "idle"
    /\ branch' = "none"
    /\ today_col' = 0
    /\ wide' = NoTable
    /\ boards' = <<>>
    /\ idx' = 0
    /\ all_rows' = <<>>
    /\ rows_today' = <<>>
    /\ fails' = <<>>
    /\ INTERRUPTED' = FALSE
    /\ df_today' = <<>>
    /\ err' = "none"
    /\ exit_status' = "none"
    /\ wrote' = FALSE
    /\ tried' = [b \in Boards |-> 0]
    /\ fetch_log' = [b \in Boards |-> <<>>]
    /\ UNCHANGED <<sideVars,
                   runs, script, csv>>

\* the process is killed, or the machine stops, while build_csv is fetching:
\* nothing of the run survives but the file
Kill ==
    /\ pc \in {"boards", "baseline", "list", "pass1", "pass2"}
    /\ pc' = "idle"
    /\ branch' = "none"
    /\ today_col' = 0
    /\ wide' = NoTable
    /\ boards' = <<>>
    /\ idx' = 0
    /\ all_rows' = <<>>
    /\ rows_today' = <<>>
    /\ fails' = <<>>
    /\ INTERRUPTED' = FALSE
    /\ df_today' = <<>>
    /\ err' = "none"
    /\ exit_status' = "killed"
    /\ wrote' = FALSE
    /\ tried' = [b \in Boards |-> 0]
    /\ fetch_log' = [b \in Boards |-> <<>>]
    /\ UNCHANGED <<sideVars, runs, script, csv>>

Next ==
    \/ StartRun
    \/ sigint_handler
    \/ BoardListRaises
    \/ BoardListReturns
    \/ BaselineStep
    \/ BaselineWrite
    \/ ListRaises
    \/ ListReturns
    \/ Pass1Step
    \/ Pass2Start
    \/ Pass2Step
    \/ WriteBack
    \/ Exit
    \/ Kill

Spec == Init /\ [][Next]_vars

\* ===================================================== paginated lists
\* fetch_board_list_basic / fetch_board_list_today of bk_data_ind.py: the
\* two loops page, skip and deduplicate alike; rows holds the keys kept
PageSize == 2
MaxPages == 2

\* the boards the provider can list, and an entry without code or name
ListedBoards == 1..(MaxPages * PageSize)
Blank == 0

\* the length of page p of a listing of n entries
PageLen(n, p) ==
    IF n >= p * PageSize THEN PageSize
    ELSE IF n > (p - 1) * PageSize THEN n - (p - 1) * PageSize
    ELSE 0

\* the "diff" the provider can answer for page p: entries (p-1)*pz+1..p*pz
\* of the listing in the order it has at the time of the request; the
\* order (by f3, the percentage change) can differ from request to
\* request, so the page is any run of distinct entries of that length
Pages(entries, p) ==
    {d \in [1..PageLen(Cardinality(entries), p) -> entries] : Injective(d)}

RECURSIVE KeepNew(_, _)
\* the loop over diff: entries without code or name are skipped, keys
\* already in seen are skipped, the others are kept in order
KeepNew(diff, S) ==
    IF diff = <<>> THEN <<>>
    ELSE LET it == Head(diff)
         IN  IF it = Blank \/ it \in S THEN KeepNew(Tail(diff), S)
             ELSE <<it>> \o KeepNew(Tail(diff), S \cup {it})

PagingInit ==
    /\ MainIdle /\ RvIdle /\ CellIdle /\ ColIdle /\ MoreIdle
    /\ PagingIdle

\* the call: all_rows = [], seen = set(), pn = 1
ListCall ==
    /\ list_pc = "idle"
    /\ \E L \in SUBSET (ListedBoards \cup {Blank}) :
         /\ Cardinality(L) <= MaxPages * PageSize
         /\ listed' = L
    /\ pn' = 1
    /\ seen' = {}
    /\ rows' = <<>>
    /\ requests' = <<>>
    /\ list_pc' = "paging"
    /\ UNCHANGED <<mainVars, rvVars, cellVars, colVars, moreVars>>

\* history entry of one request: the page asked for, whether the HTTP status
\* was good, len(diff), the "total" of the answer (0: none) and len(all_rows)
\* after the page
Request(page, ok, n, total, acc) ==
    [pn |-> page, ok |-> ok, diff_len |-> n, total |-> total, acc |-> acc]

\* PageRequest without the "if not diff: break"
PageRequestIgnoresEmpty ==
    /\ list_pc = "paging"
    /\ pn <= MaxPages
    /\ \E diff \in Pages(listed, pn), total \in {0, Cardinality(listed)} :
         IF diff = <<>>
         THEN /\ list_pc' = "paging" /\ pn' = pn + 1
              /\ requests' = Append(requests, Request(pn, TRUE, 0, total,
                                                      Len(rows)))
              /\ UNCHANGED <<seen, rows>>
         ELSE LET new == KeepNew(diff, seen)
              IN  /\ rows' = rows \o new
                  /\ seen' = seen \cup Range(new)
                  /\ requests' = Append(requests,
                                        Request(pn, TRUE, Len(diff), total,
                                                Len(rows \o new)))
                  /\ IF total # 0 /\ Len(rows \o new) >= total
                     THEN list_pc' = "done" /\ pn' = pn
                     ELSE list_pc' = "paging" /\ pn' = pn + 1
    /\ UNCHANGED <<listed, mainVars, rvVars, cellVars, colVars, moreVars>>

\* one iteration of "for pn in range(1, max_pages + 1)": the request
\* succeeds; an empty diff ends the loop, so does reaching "total"
PageRequest ==
    /\ list_pc = "paging"
    /\ pn <= MaxPages
    /\ \E diff \in Pages(listed, pn), total \in {0, Cardinality(listed)} :
         IF diff = <<>>
         THEN /\ list_pc' = "done"
              /\ requests' = Append(requests, Request(pn, TRUE, 0, total,
                                                      Len(rows)))
              /\ UNCHANGED <<pn, seen, rows>>
         ELSE LET new == KeepNew(diff, seen)
              IN  /\ rows' = rows \o new
                  /\ seen' = seen \cup Range(new)
                  /\ requests' = Append(requests,
                                        Request(pn, TRUE, Len(diff), total,
                                                Len(rows \o new)))
                  /\ IF total # 0 /\ Len(rows \o new) >= total
                     THEN list_pc' = "done" /\ pn' = pn
                     ELSE list_pc' = "paging" /\ pn' = pn + 1
    /\ UNCHANGED <<listed, mainVars, rvVars, cellVars, colVars, moreVars>>

\* r.raise_for_status() raises: the exception leaves the function, all_rows
\* and seen are gone with the frame
PageRaises ==
    /\ list_pc = "paging"
    /\ pn <= MaxPages
    /\ requests' = Append(requests, Request(pn, FALSE, 0, 0, Len(rows)))
    /\ rows' = <<>>
    /\ seen' = {}
    /\ list_pc' = "raised"
    /\ UNCHANGED <<listed, pn, mainVars, rvVars, cellVars, colVars, moreVars>>

\* range(1, max_pages + 1) is exhausted
PagesExhausted ==
    /\ list_pc = "paging"
    /\ pn > MaxPages
    /\ list_pc' = "done"
    /\ UNCHANGED <<listed, pn, seen, rows, requests, mainVars, rvVars, cellVars,
                   colVars, moreVars>>

\* return all_rows; the locals are gone
ListReturn ==
    /\ list_pc = "done"
    /\ list_pc' = "idle"
    /\ listed' = {} /\ pn' = 0 /\ seen' = {} /\ rows' = <<>>
    /\ requests' = <<>>
    /\ UNCHANGED <<mainVars, rvVars, cellVars, colVars, moreVars>>

\* the exception of PageRaises has reached the caller
ListRaised ==
    /\ list_pc = "raised"
    /\ list_pc' = "idle"
    /\ listed' = {} /\ pn' = 0 /\ requests' = <<>>
    /\ UNCHANGED <<seen, rows, mainVars, rvVars, cellVars, colVars, moreVars>>

PagingNext ==
    \/ ListCall
    \/ PageRequest
    \/ PageRaises
    \/ PagesExhausted
    \/ ListReturn
    \/ ListRaised

SpecPaging == PagingInit /\ [][PagingNext]_vars

\* every request is answered or fails (the session has a timeout), and the
\* interpreter goes on with the statement after it
SpecPagingFair ==
    SpecPaging /\ WF_vars(PageRequest \/ PageRaises \/ PagesExhausted)

\* ==================================================== rank_get_value.py
SLOW_RETRY_ROUNDS == 2
MaxSlowRounds == 3

\* fmt_cell of rank_get_value.py build_csv: rank|pct_chg
fmt_cell_rv(rank, pct) ==
    LET rs == IF rank = NA THEN "" ELSE ToString(rank[1])
        ps == IF pct = NA THEN "" ELSE Fixed2(pct[1])
    IN  IF rs = "" /\ ps = "" THEN EmptyCell ELSE Join(<<rs, ps>>)

\* what fetch_one_board can return for a board: the empty frame (<<>> here)
\* or records, one pct on a set of dates of the window
RvFrames ==
    {[d \in D |-> q] : D \in (SUBSET Dates) \ {{}}, q \in {NA, Some(150)}}

\* results[bk_code] = df: a new key goes last, a known key keeps its place
SetResult(res, bk, df) ==
    IF \E i \in DOMAIN res : res[i].bk = bk
    THEN [i \in DOMAIN res |-> IF res[i].bk = bk
                                 THEN [bk |-> bk, recs |-> df] ELSE res[i]]
    ELSE Append(res, [bk |-> bk, recs |-> df])

\* the rank of board b within trade_date d: all_df is sorted by
\* (trade_date, bk_code) before rank(ascending=False, method="first")
rv_rank(res, b, d) ==
    LET members == SortedSeq({res[i].bk : i \in
                        {k \in DOMAIN res : d \in DOMAIN res[k].recs}})
        at(x) == CHOOSE i \in DOMAIN res : res[i].bk = x
        pcts == [k \in DOMAIN members |-> res[at(members[k])].recs[d]]
    IN  rank_first(pcts, IndexOf(members, b))

\* "Assemble" up to the pivot: rows = the fetched boards (sorted), columns =
\* the fetched dates (sorted)
rv_pivot(res) ==
    LET bks == {res[i].bk : i \in DOMAIN res}
        dts == UNION {DOMAIN res[i].recs : i \in DOMAIN res}
        at(b) == CHOOSE i \in DOMAIN res : res[i].bk = b
        cell == [b \in bks |-> [d \in dts |->
                    IF d \in DOMAIN res[at(b)].recs
                    THEN fmt_cell_rv(rv_rank(res, b, d), res[at(b)].recs[d])
                    ELSE EmptyCell]]
    IN  Table(SortedSeq(bks), SortedSeq(dts), cell)

\* the table build_csv writes without "Ensure all boards appear"
rv_table_no_reindex(res, bl) == rv_pivot(res)

\* the table build_csv writes: the pivot reindexed to the full board list
rv_table(res, bl) == reindex(rv_pivot(res), bl)

RvInit ==
    /\ MainIdle /\ PagingIdle /\ CellIdle /\ ColIdle /\ MoreIdle
    /\ RvIdle

\* python rank_get_value.py --slow-rounds k: parse_args, then build_csv up
\* to the board list and the look at the existing file
RvStart ==
    /\ rv_pc = "idle"
    /\ \E k \in 0..MaxSlowRounds : slow_rounds' = k
    /\ \E bl \in BoardLists : rv_boards' = bl
    /\ prev_csv' = out_csv
    /\ rv_pc' = "phase1"
    /\ UNCHANGED <<out_csv, completed, results, rv_fails, next_fails, round,
                   pos, slow_calls, rv_err,
                   mainVars, pagingVars, cellVars, colVars, moreVars>>

\* fetch_board_list raises: build_csv ends with the exception
RvListRaises ==
    /\ rv_pc = "idle"
    /\ \E k \in 0..MaxSlowRounds : slow_rounds' = k
    /\ prev_csv' = out_csv
    /\ rv_err' = TRUE
    /\ rv_pc' = "exit"
    /\ UNCHANGED <<out_csv, rv_boards, completed, results, rv_fails,
                   next_fails, round, pos, slow_calls,
                   mainVars, pagingVars, cellVars, colVars, moreVars>>

\* Phase 1: as_completed yields the future of some board not yet seen
Phase1Result ==
    /\ rv_pc = "phase1"
    /\ \E bk \in Range(rv_boards) \ completed :
         /\ completed' = completed \cup {bk}
         /\ \E df \in RvFrames \cup {<<>>} :
              IF df # <<>>
              THEN results' = SetResult(results, bk, df) /\ UNCHANGED rv_fails
              ELSE rv_fails' = Append(rv_fails, bk) /\ UNCHANGED results
    /\ UNCHANGED <<rv_pc, out_csv, prev_csv, slow_rounds, rv_boards,
                   next_fails, round, pos, slow_calls, rv_err,
                   mainVars, pagingVars, cellVars, colVars, moreVars>>

\* every future is done: "if fails:" enters Phase 2 and its first round
Phase1Done ==
    /\ rv_pc = "phase1"
    /\ completed = Range(rv_boards)
    /\ IF rv_fails # <<>> /\ SLOW_RETRY_ROUNDS > 0
       THEN rv_pc' = "phase2" /\ pos' = 1
       ELSE rv_pc' = "assemble" /\ pos' = pos
    /\ UNCHANGED <<out_csv, prev_csv, slow_rounds, rv_boards, completed,
                   results, rv_fails, next_fails, round, slow_calls, rv_err,
                   mainVars, pagingVars, cellVars, colVars, moreVars>>

\* Phase 2, one slow call of the inner loop
SlowCall ==
    /\ rv_pc = "phase2"
    /\ pos <= Len(rv_fails)
    /\ \E df \in RvFrames \cup {<<>>} :
         IF df # <<>>
         THEN results' = SetResult(results, rv_fails[pos], df)
              /\ UNCHANGED next_fails
         ELSE next_fails' = Append(next_fails, rv_fails[pos])
              /\ UNCHANGED results
    /\ slow_calls' = [slow_calls EXCEPT ![rv_fails[pos]] = @ + 1]
    /\ pos' = pos + 1
    /\ UNCHANGED <<rv_pc, out_csv, prev_csv, slow_rounds, rv_boards,
                   completed, rv_fails, round, rv_err,
                   mainVars, pagingVars, cellVars, colVars, moreVars>>

\* Phase 2, the end of a round: fails = next_fails; stop when nothing is
\* left or range(SLOW_RETRY_ROUNDS) is exhausted
RoundEnd ==
    /\ rv_pc = "phase2"
    /\ pos > Len(rv_fails)
    /\ rv_fails' = next_fails
    /\ next_fails' = <<>>
    /\ IF next_fails = <<>> \/ round + 1 >= SLOW_RETRY_ROUNDS
       THEN rv_pc' = "assemble" /\ UNCHANGED <<round, pos>>
       ELSE rv_pc' = "phase2" /\ round' = round + 1 /\ pos' = 1
    /\ UNCHANGED <<out_csv, prev_csv, slow_rounds, rv_boards, completed,
                   results, slow_calls, rv_err,
                   mainVars, pagingVars, cellVars, colVars, moreVars>>

\* "Assemble": RuntimeError when nothing was fetched, else the CSV is
\* written
Assemble ==
    /\ rv_pc = "assemble"
    /\ IF results = <<>>
       THEN rv_err' = TRUE /\ UNCHANGED out_csv
       ELSE out_csv' = rv_table(results, rv_boards) /\ UNCHANGED rv_err
    /\ rv_pc' = "exit"
    /\ UNCHANGED <<prev_csv, slow_rounds, rv_boards, completed, results,
                   rv_fails, next_fails, round, pos, slow_calls,
                   mainVars, pagingVars, cellVars, colVars, moreVars>>

\* the process ends; only the file stays
RvExit ==
    /\ rv_pc = "exit"
    /\ rv_pc' = "idle"
    /\ prev_csv' = NoTable
    /\ slow_rounds' = 0
    /\ rv_boards' = <<>>
    /\ completed' = {}
    /\ results' = <<>>
    /\ rv_fails' = <<>>
    /\ next_fails' = <<>>
    /\ round' = 0
    /\ pos' = 0
    /\ slow_calls' = [b \in Boards |-> 0]
    /\ rv_err' = FALSE
    /\ UNCHANGED <<out_csv, mainVars, pagingVars, cellVars, colVars, moreVars>>

RvNext ==
    \/ RvStart
    \/ RvListRaises
    \/ Phase1Result
    \/ Phase1Done
    \/ SlowCall
    \/ RoundEnd
    \/ Assemble
    \/ RvExit

SpecRv == RvInit /\ [][RvNext]_vars

\* ================================================= cell writer / reader
MaxNumeral == 105

\* the numbers a field text can denote, in ten-thousandths (steps of 0.05)
Numerals == {n * 500 : n \in (0 - MaxNumeral)..MaxNumeral}

\* the decimal texts of the number v (ten-thousandths) that the writers
\* produce: "%.4f" stripped of trailing zeros (the same text as str(int) for
\* a whole number) and "%.2f"
DecimalTexts(v) ==
    {Fixed4Stripped(v)} \cup (IF v % 100 = 0 THEN {Fixed2(v \div 100)} ELSE {})

\* float(text): the number the text denotes, in ten-thousandths; NA stands
\* for the ValueError of float("") and of a text that is no number
float_of(text) ==
    LET hits == {v \in Numerals : text \in DecimalTexts(v)}
    IN  IF text = "" \/ hits = {} THEN NA ELSE Some(CHOOSE v \in hits : TRUE)

\* str(cell).split("|")
Split(c) == [i \in 1..((Len(c) + 1) \div 2) |-> c[2 * i - 1]]

\* a parsed triple: rank an integer, pct a fraction in millionths (the
\* percentage divided by 100), val in ten-thousandths; NA is NaN
Triple(rank, pct, val) == [rank |-> rank, pct |-> pct, val |-> val]
NaNTriple == Triple(NA, NA, NA)

\* bk_top_range.py parse_triplet
parse_triplet_range(c) ==
    IF c = EmptyCell THEN NaNTriple
    ELSE LET parts == Split(c)
             rank_raw == float_of(parts[1])
         IN  IF rank_raw = NA THEN NaNTriple
             ELSE IF Len(parts) < 2 THEN NaNTriple
             ELSE IF float_of(parts[2]) = NA THEN NaNTriple
             ELSE IF Len(parts) < 3 THEN NaNTriple
             ELSE IF float_of(parts[3]) = NA THEN NaNTriple
             ELSE Triple(IF rank_raw[1] > 0 /\ rank_raw[1] % 10000 = 0
                         THEN Some(rank_raw[1] \div 10000) ELSE NA,
                         Some(float_of(parts[2])[1]),
                         Some(float_of(parts[3])[1]))

\* bk_top_rank.py parse_triplet: the same text as bk_top_range.py's
parse_triplet_rank(c) == parse_triplet_range(c)

\* bk_pipeline_top_con.py parse_triplet: r, p, v = str(cell).split("|")
\* raises ValueError unless the split has exactly three parts
parse_triplet_pipeline(c) ==
    IF c = EmptyCell THEN NaNTriple
    ELSE LET parts == Split(c)
         IN  IF Len(parts) # 3 THEN NaNTriple
             ELSE IF \E i \in 1..3 : float_of(parts[i]) = NA THEN NaNTriple
             ELSE Triple(IF float_of(parts[1])[1] > 0
                         THEN Some(float_of(parts[1])[1] \div 10000) ELSE NA,
                         Some(float_of(parts[2])[1]),
                         Some(float_of(parts[3])[1]))

\* the arguments of one fmt_cell call
FmtArgs(rank, pct, close, turnover, up, down, leader) ==
    [rank |-> rank, pct |-> pct, close |-> close, turnover |-> turnover,
     up |-> up, down |-> down, leader |-> leader]

\* the calls the writers make: patch_today and write_baseline pass a rank
\* exactly when pct_chg is a number; bk_fetch_data.py has three arguments,
\* bk_data_ind.py seven
CellArgs(w) ==
    {FmtArgs(r, p, c, t, u, d, l) :
        r \in {NA, Some(1), Some(2)},
        p \in {NA, Some(0 - 150), Some(0), Some(150)},
        c \in {NA, Some(50000), Some(52500)},
        t \in IF w = "ind" THEN {NA, Some(120)} ELSE {NA},
        u \in IF w = "ind" THEN {NA, Some(3)} ELSE {NA},
        d \in IF w = "ind" THEN {NA, Some(1)} ELSE {NA},
        l \in IF w = "ind" THEN {NA, Some("L")} ELSE {NA}}

\* fmt_cell of the writer w on the arguments a
fmt_cell(w, a) ==
    IF w = "ind"
    THEN fmt_cell_ind(a.rank, a.pct, a.close, a.turnover, a.up, a.down,
                      a.leader)
    ELSE fmt_cell_fetch(a.rank, a.pct, a.close)

CellInit ==
    /\ MainIdle /\ PagingIdle /\ RvIdle /\ ColIdle /\ MoreIdle
    /\ cell_pc = "args"
    /\ writer \in {"fetch", "ind"}
    /\ args \in {a \in CellArgs(writer) : (a.rank = NA) <=> (a.pct = NA)}
    /\ reader = "none"
    /\ cell_text = <<>>
    /\ triplet = <<>>

\* the writer encodes the cell; the CSV round trip keeps the text
WriteCell ==
    /\ cell_pc = "args"
    /\ cell_text' = fmt_cell(writer, args)
    /\ cell_pc' = "cell"
    /\ UNCHANGED <<writer, reader, args, triplet,
                   mainVars, pagingVars, rvVars, colVars, moreVars>>

ReadTopRange ==
    /\ cell_pc = "cell"
    /\ reader' = "bk_top_range"
    /\ triplet' = parse_triplet_range(cell_text)
    /\ cell_pc' = "parsed"
    /\ UNCHANGED <<writer, args, cell_text,
                   mainVars, pagingVars, rvVars, colVars, moreVars>>

ReadTopRank ==
    /\ cell_pc = "cell"
    /\ reader' = "bk_top_rank"
    /\ triplet' = parse_triplet_rank(cell_text)
    /\ cell_pc' = "parsed"
    /\ UNCHANGED <<writer, args, cell_text,
                   mainVars, pagingVars, rvVars, colVars, moreVars>>

ReadPipeline ==
    /\ cell_pc = "cell"
    /\ reader' = "bk_pipeline_top_con"
    /\ triplet' = parse_triplet_pipeline(cell_text)
    /\ cell_pc' = "parsed"
    /\ UNCHANGED <<writer, args, cell_text,
                   mainVars, pagingVars, rvVars, colVars, moreVars>>

CellNext ==
    \/ WriteCell
    \/ ReadTopRange
    \/ ReadTopRank
    \/ ReadPipeline

SpecCell == CellInit /\ [][CellNext]_vars

\* ================================================ one ranked date column
\* the rows of one trade date as a run has them before ranking: distinct
\* boards in the order of the run's board list, each with its pct_chg
ColumnInputs ==
    {[i \in DOMAIN bl |-> [bk |-> bl[i], pct |-> p[i]]] :
        bl \in BoardLists,
        p \in [1..MaxBoards -> {NA, Some(0 - 150), Some(150), Some(250)}]}

\* the date of the column, and the close of every row
ColDate == 1
ColClose == Some(50000)

\* df_today of the column
ColFrame(c) ==
    [i \in DOMAIN c |-> TodayRow(c[i].bk, c[i].pct, ColClose, NA, NA, NA, NA)]

\* all_rows of the column: one frame per board, in list order
ColAllRows(c) ==
    [i \in DOMAIN c |->
        [bk |-> c[i].bk,
         recs |-> [d \in {ColDate} |-> [pct |-> c[i].pct, close |-> ColClose]]]]

\* results of the column: one frame per board, in list order
ColResults(c) ==
    [i \in DOMAIN c |-> [bk |-> c[i].bk, recs |-> [d \in {ColDate} |-> c[i].pct]]]

ColInit ==
    /\ MainIdle /\ PagingIdle /\ RvIdle /\ CellIdle /\ MoreIdle
    /\ col_pc = "input"
    /\ col_by \in {"patch_today", "write_baseline", "rank_get_value"}
    /\ col_in \in ColumnInputs
    /\ col_out = <<>>

\* bk_data_ind.py patch_today, steps 1 and 2: cell_new of every row
RankPatchToday ==
    /\ col_pc = "input" /\ col_by = "patch_today"
    /\ col_out' = [b \in {col_in[i].bk : i \in DOMAIN col_in} |->
                      cell_new_ind(ColFrame(col_in),
                          CHOOSE i \in DOMAIN col_in : col_in[i].bk = b)]
    /\ col_pc' = "written"
    /\ UNCHANGED <<col_by, col_in, mainVars, pagingVars, rvVars, cellVars, moreVars>>

\* bk_data_ind.py write_baseline: the column of the date
RankWriteBaseline ==
    /\ col_pc = "input" /\ col_by = "write_baseline"
    /\ col_out' = [b \in {col_in[i].bk : i \in DOMAIN col_in} |->
                      CellAt(write_baseline("ind", ColAllRows(col_in)),
                             b, ColDate)]
    /\ col_pc' = "written"
    /\ UNCHANGED <<col_by, col_in, mainVars, pagingVars, rvVars, cellVars, moreVars>>

\* rank_get_value.py build_csv, "Assemble": the column of the date
RankGetValue ==
    /\ col_pc = "input" /\ col_by = "rank_get_value"
    /\ col_out' = [b \in {col_in[i].bk : i \in DOMAIN col_in} |->
                      CellAt(rv_table(ColResults(col_in),
                                      [i \in DOMAIN col_in |-> col_in[i].bk]),
                             b, ColDate)]
    /\ col_pc' = "written"
    /\ UNCHANGED <<col_by, col_in, mainVars, pagingVars, rvVars, cellVars, moreVars>>

ColNext ==
    \/ RankPatchToday
    \/ RankWriteBaseline
    \/ RankGetValue

SpecCol == ColInit /\ [][ColNext]_vars

\* ==================== the per-board loops of build_csv, attempt by attempt
\* bounds of the loop machine
MaxLoopBoards == 3
MaxCooldown == 2

RETRY_TIMES == 4

\* everything but the loop machine
notLoopVars == <<mainVars, pagingVars, rvVars, cellVars, colVars, foVars,
                 poolVars, xlVars>>

\* range(RETRY_TIMES) in the baseline and Pass 1, range(RETRY_TIMES + 1) in
\* Pass 2
Tries(kind) == IF kind = "pass2" THEN RETRY_TIMES + 1 ELSE RETRY_TIMES

\* backoff = 0.6 in the baseline and Pass 1, backoff = 1.0 in Pass 2, in
\* tenths of a second
FirstBackoff(kind) == IF kind = "pass2" THEN 10 ELSE 6

\* the number of "fail" entries at the end of the events h
RECURSIVE TrailingFails(_)
TrailingFails(h) ==
    IF h = <<>> \/ h[Len(h)] # "fail" THEN 0
    ELSE 1 + TrailingFails(SubSeq(h, 1, Len(h) - 1))

LoopInit ==
    /\ MainIdle /\ PagingIdle /\ RvIdle /\ CellIdle /\ ColIdle
    /\ MoreIdle

\* build_csv reaches one of its three loops: consec_fail = 0 before the
\* baseline loop and before Pass 1; Pass 2 goes through the non-empty fails
\* and never looks at consec_fail
LoopStart ==
    /\ loop_pc = "idle"
    /\ \E kind \in {"baseline", "pass1", "pass2"}, n \in 1..MaxLoopBoards,
          ca \in 0..MaxCooldown :
          /\ loop_kind' = kind
          /\ loop_n' = n
          /\ cooldown_after' = ca
    /\ loop_i' = 1
    /\ consec_fail' = 0
    /\ events' = <<>>
    /\ loop_pc' = "iter"
    /\ UNCHANGED <<attempt, backoff, fetch_ok, fetch_recs, slept, notLoopVars>>

\* "if INTERRUPTED: break" at the head of an iteration
LoopInterrupted ==
    /\ loop_pc = "iter" /\ loop_i <= loop_n
    /\ loop_pc' = "end"
    /\ UNCHANGED <<loop_kind, loop_n, loop_i, attempt, backoff, fetch_ok,
                   fetch_recs, slept, consec_fail, cooldown_after, events,
                   notLoopVars>>

\* the head of an iteration: ok = False; recs = None; backoff = 0.6 / 1.0
BoardBegin ==
    /\ loop_pc = "iter" /\ loop_i <= loop_n
    /\ attempt' = 0
    /\ backoff' = FirstBackoff(loop_kind)
    /\ fetch_ok' = FALSE
    /\ fetch_recs' = 0
    /\ slept' = <<>>
    /\ loop_pc' = "try"
    /\ UNCHANGED <<loop_kind, loop_n, loop_i, consec_fail, cooldown_after,
                   events, notLoopVars>>

\* the attempt returned zero records and the loop went on to another attempt
AttemptReturnsRetriesEmpty ==
    /\ loop_pc = "try" /\ attempt < Tries(loop_kind)
    /\ \E n \in 0..1 :
          /\ fetch_recs' = n
          /\ fetch_ok' = (n > 0)
          /\ loop_pc' = IF n > 0 \/ attempt + 1 = Tries(loop_kind)
                        THEN "after" ELSE "try"
    /\ attempt' = attempt + 1
    /\ UNCHANGED <<loop_kind, loop_n, loop_i, backoff, slept, consec_fail,
                   cooldown_after, events, notLoopVars>>

\* an attempt that does not raise: recs = _fetch_range(...); ok = True; break
AttemptReturns ==
    /\ loop_pc = "try" /\ attempt < Tries(loop_kind)
    /\ \E n \in 0..1 : fetch_recs' = n
    /\ fetch_ok' = TRUE
    /\ attempt' = attempt + 1
    /\ loop_pc' = "after"
    /\ UNCHANGED <<loop_kind, loop_n, loop_i, backoff, slept, consec_fail,
                   cooldown_after, events, notLoopVars>>

\* an attempt that raises: a network error sleeps backoff plus a jitter, any
\* other Exception sleeps backoff; backoff *= 2; the loop ends after the
\* last value of range(...)
AttemptRaises ==
    /\ loop_pc = "try" /\ attempt < Tries(loop_kind)
    /\ \E network \in BOOLEAN :
          slept' = Append(slept, [base |-> backoff, jitter |-> network])
    /\ backoff' = backoff * 2
    /\ attempt' = attempt + 1
    /\ loop_pc' = IF attempt + 1 = Tries(loop_kind) THEN "after" ELSE "try"
    /\ UNCHANGED <<loop_kind, loop_n, loop_i, fetch_ok, fetch_recs,
                   consec_fail, cooldown_after, events, notLoopVars>>

\* a successful board left consec_fail as it was
BoardEndKeepsCount ==
    /\ loop_pc = "after"
    /\ IF loop_kind = "pass2" THEN UNCHANGED <<consec_fail, events>>
       ELSE IF fetch_ok /\ fetch_recs > 0
       THEN /\ UNCHANGED consec_fail
            /\ events' = Append(events, "ok")
       ELSE IF consec_fail + 1 >= cooldown_after
       THEN /\ consec_fail' = 0
            /\ events' = events \o <<"fail", "cooldown">>
       ELSE /\ consec_fail' = consec_fail + 1
            /\ events' = Append(events, "fail")
    /\ loop_i' = loop_i + 1
    /\ loop_pc' = "iter"
    /\ UNCHANGED <<loop_kind, loop_n, attempt, backoff, fetch_ok, fetch_recs,
                   slept, cooldown_after, notLoopVars>>

\* after the retry loop: "if ok and recs:" ... consec_fail = 0, "else:"
\* consec_fail += 1 and the cooldown sleep with consec_fail = 0 once
\* consec_fail >= cooldown_after; Pass 2 only prints
BoardEnd ==
    /\ loop_pc = "after"
    /\ IF loop_kind = "pass2" THEN UNCHANGED <<consec_fail, events>>
       ELSE IF fetch_ok /\ fetch_recs > 0
       THEN /\ consec_fail' = 0
            /\ events' = Append(events, "ok")
       ELSE IF consec_fail + 1 >= cooldown_after
       THEN /\ consec_fail' = 0
            /\ events' = events \o <<"fail", "cooldown">>
       ELSE /\ consec_fail' = consec_fail + 1
            /\ events' = Append(events, "fail")
    /\ loop_i' = loop_i + 1
    /\ loop_pc' = "iter"
    /\ UNCHANGED <<loop_kind, loop_n, attempt, backoff, fetch_ok, fetch_recs,
                   slept, cooldown_after, notLoopVars>>

\* the for loop ran out of boards
LoopEnd ==
    /\ loop_pc = "iter" /\ loop_i > loop_n
    /\ loop_pc' = "end"
    /\ UNCHANGED <<loop_kind, loop_n, loop_i, attempt, backoff, fetch_ok,
                   fetch_recs, slept, consec_fail, cooldown_after, events,
                   notLoopVars>>

LoopNext ==
    \/ LoopStart
    \/ LoopInterrupted
    \/ BoardBegin
    \/ AttemptReturns
    \/ AttemptRaises
    \/ BoardEnd
    \/ LoopEnd

SpecLoop == LoopInit /\ [][LoopNext]_vars

\* ================ fetch_one_board of rank_get_value.py, attempt by attempt
RETRY_TIMES_rv == 4

\* BACKOFF_BASE = 0.6 and SLOW_SLEEP_BETWEEN_CALLS = 0.9, in tenths of a
\* second
BACKOFF_BASE == 6
SLOW_SLEEP_BETWEEN_CALLS == 9

\* everything but the fetch_one_board machine
notFoVars == <<mainVars, pagingVars, rvVars, cellVars, colVars, loopVars,
               poolVars, xlVars>>

\* tries = RETRY_TIMES if not slow_mode else (RETRY_TIMES + 2)
tries(slow) == IF slow THEN RETRY_TIMES_rv + 2 ELSE RETRY_TIMES_rv

\* what _fetch_lmt did: it raised (HTTP status, JSON or kline parsing), or it
\* returned no record, only records with a NaN pct, or records with a pct
LmtOutcomes == {"raise", "empty", "allnan", "recs"}

\* what the fallback _fetch_beg_end did, "unused" when it was not called
BegEndOutcomes == {"raise", "empty", "recs"}

\* the body of the try: the fallback is called when _fetch_lmt returned
\* nothing or only NaN; the attempt has recs when the last call made
\* returned records
Attempt(lmt, beg) ==
    LET fallback == lmt \in {"empty", "allnan"}
    IN  [lmt |-> lmt,
         beg |-> IF fallback THEN beg ELSE "unused",
         recs |-> IF fallback THEN beg = "recs" ELSE lmt = "recs",
         slept |-> 0]

\* the except branch: base = BACKOFF_BASE * (2 ** attempt), plus
\* SLOW_SLEEP_BETWEEN_CALLS in slow mode; time.sleep(base + a jitter below
\* 0.25 s); slept is base
backoff_base(n, slow) ==
    BACKOFF_BASE * 2^n + (IF slow THEN SLOW_SLEEP_BETWEEN_CALLS ELSE 0)

FoInit ==
    /\ MainIdle /\ PagingIdle /\ RvIdle /\ CellIdle /\ ColIdle
    /\ MoreIdle

\* the call, from a worker thread (slow_mode False) or from Phase 2
fetch_one_board ==
    /\ fo_pc = "idle"
    /\ slow_mode' \in BOOLEAN
    /\ fo_log' = <<>>
    /\ fo_df' = "none"
    /\ fo_pc' = "try"
    /\ UNCHANGED notFoVars

\* an attempt whose exception is not caught when it comes from parsing
AttemptFailsParseEscapes ==
    /\ fo_pc = "try" /\ Len(fo_log) < tries(slow_mode)
    /\ \E lmt \in LmtOutcomes, beg \in BegEndOutcomes :
          LET a == Attempt(lmt, beg)
          IN  /\ ~a.recs
              /\ fo_log' = Append(fo_log,
                     [a EXCEPT !.slept = backoff_base(Len(fo_log), slow_mode)])
              /\ IF lmt = "raise"
                 THEN fo_pc' = "raised" /\ fo_df' = "none"
                 ELSE IF Len(fo_log) + 1 = tries(slow_mode)
                 THEN fo_pc' = "returned" /\ fo_df' = "empty"
                 ELSE fo_pc' = "try" /\ fo_df' = "none"
    /\ UNCHANGED <<slow_mode, notFoVars>>

\* an attempt that ends with records: return df[[...]]
AttemptYields ==
    /\ fo_pc = "try" /\ Len(fo_log) < tries(slow_mode)
    /\ \E lmt \in LmtOutcomes, beg \in BegEndOutcomes :
          LET a == Attempt(lmt, beg)
          IN  /\ a.recs
              /\ fo_log' = Append(fo_log, a)
    /\ fo_df' = "frame"
    /\ fo_pc' = "returned"
    /\ UNCHANGED <<slow_mode, notFoVars>>

\* an attempt that raises, RuntimeError("empty klines") included: caught by
\* "except Exception", sleep; after the last attempt the empty DataFrame is
\* returned
AttemptFails ==
    /\ fo_pc = "try" /\ Len(fo_log) < tries(slow_mode)
    /\ \E lmt \in LmtOutcomes, beg \in BegEndOutcomes :
          LET a == Attempt(lmt, beg)
          IN  /\ ~a.recs
              /\ fo_log' = Append(fo_log,
                     [a EXCEPT !.slept = backoff_base(Len(fo_log), slow_mode)])
    /\ IF Len(fo_log) + 1 = tries(slow_mode)
       THEN fo_pc' = "returned" /\ fo_df' = "empty"
       ELSE fo_pc' = "try" /\ fo_df' = "none"
    /\ UNCHANGED <<slow_mode, notFoVars>>

FoNext ==
    \/ fetch_one_board
    \/ AttemptYields
    \/ AttemptFails

SpecFo == FoInit /\ [][FoNext]_vars

\* ========== Phase 1 / Phase 2 of rank_get_value.py build_csv, by thread
\* bounds of the pool machine
MaxPoolBoards == 3
MaxWorkers == 2

\* everything but the pool machine
notPoolVars == <<mainVars, pagingVars, rvVars, cellVars, colVars, loopVars,
                 foVars, xlVars>>

\* the board lists of a run: distinct board codes, in any order
PoolBoardLists ==
    {bl \in UNION {[1..n -> 1..MaxPoolBoards] : n \in 0..MaxPoolBoards} :
        Injective(bl)}

\* the futures of the given state
Futures(st) == {b \in DOMAIN task : task[b] = st}

PoolInit ==
    /\ MainIdle /\ PagingIdle /\ RvIdle /\ CellIdle /\ ColIdle
    /\ MoreIdle

\* build_csv up to "with ThreadPoolExecutor(max_workers=max_workers) as ex":
\* results = {}, fails = [], no future yet
PoolStart ==
    /\ pool_pc = "idle"
    /\ pool_boards' \in PoolBoardLists
    /\ max_workers' \in 1..MaxWorkers
    /\ next_sub' = 1
    /\ task' = [b \in 1..MaxPoolBoards |-> "none"]
    /\ submits' = [b \in 1..MaxPoolBoards |-> 0]
    /\ yielded' = {}
    /\ pool_results' = {}
    /\ pool_fails' = <<>>
    /\ pool_next' = <<>>
    /\ pool_round' = 0
    /\ pool_pos' = 0
    /\ pool_pc' = "submit"
    /\ UNCHANGED notPoolVars

\* main thread, one iteration of the submit loop: ex.submit(fetch_one_board,
\* ...), fut_map[fut] = ..., time.sleep(SUBMIT_GAP)
Submit ==
    /\ pool_pc = "submit" /\ next_sub <= Len(pool_boards)
    /\ task' = [task EXCEPT ![pool_boards[next_sub]] = "queued"]
    /\ submits' = [submits EXCEPT ![pool_boards[next_sub]] = @ + 1]
    /\ next_sub' = next_sub + 1
    /\ UNCHANGED <<pool_pc, pool_boards, max_workers, yielded, pool_results,
                   pool_fails, pool_next, pool_round, pool_pos, notPoolVars>>

\* main thread: the submit loop is over, as_completed(fut_map) begins
SubmitDone ==
    /\ pool_pc = "submit" /\ next_sub > Len(pool_boards)
    /\ pool_pc' = "collect"
    /\ UNCHANGED <<pool_boards, max_workers, next_sub, task, submits, yielded,
                   pool_results, pool_fails, pool_next, pool_round, pool_pos,
                   notPoolVars>>

\* a worker thread that is free takes the oldest queued work item
WorkerTakes ==
    /\ pool_pc \in {"submit", "collect"}
    /\ Cardinality(Futures("running")) < max_workers
    /\ \E i \in DOMAIN pool_boards :
          /\ task[pool_boards[i]] = "queued"
          /\ \A j \in 1..(i - 1) : task[pool_boards[j]] # "queued"
          /\ task' = [task EXCEPT ![pool_boards[i]] = "running"]
    /\ UNCHANGED <<pool_pc, pool_boards, max_workers, next_sub, submits,
                   yielded, pool_results, pool_fails, pool_next, pool_round,
                   pool_pos, notPoolVars>>

\* a worker thread that stores the frame of its board in results itself
WorkerFinishesStores ==
    /\ pool_pc \in {"submit", "collect"}
    /\ \E b \in Futures("running"), df \in {"frame", "empty"} :
          /\ task' = [task EXCEPT ![b] = df]
          /\ pool_results' = IF df = "frame" THEN pool_results \cup {b}
                             ELSE pool_results
    /\ UNCHANGED <<pool_pc, pool_boards, max_workers, next_sub, submits,
                   yielded, pool_fails, pool_next, pool_round, pool_pos,
                   notPoolVars>>

\* a worker thread: fetch_one_board returns its DataFrame, the future is
\* done
WorkerFinishes ==
    /\ pool_pc \in {"submit", "collect"}
    /\ \E b \in Futures("running"), df \in {"frame", "empty"} :
          task' = [task EXCEPT ![b] = df]
    /\ UNCHANGED <<pool_pc, pool_boards, max_workers, next_sub, submits,
                   yielded, pool_results, pool_fails, pool_next, pool_round,
                   pool_pos, notPoolVars>>

\* main thread, one iteration of "for fut in as_completed(fut_map)": some
\* future that is done and not yet yielded; df = fut.result()
Collect ==
    /\ pool_pc = "collect"
    /\ \E b \in (Futures("frame") \cup Futures("empty")) \ yielded :
          /\ yielded' = yielded \cup {b}
          /\ IF task[b] = "frame"
             THEN pool_results' = pool_results \cup {b}
                  /\ UNCHANGED pool_fails
             ELSE pool_fails' = Append(pool_fails, b)
                  /\ UNCHANGED pool_results
    /\ UNCHANGED <<pool_pc, pool_boards, max_workers, next_sub, task, submits,
                   pool_next, pool_round, pool_pos, notPoolVars>>

\* main thread: as_completed is exhausted, the with block ends; "if fails:"
\* opens Phase 2 with _round = 0 and next_fails = []
CollectDone ==
    /\ pool_pc = "collect"
    /\ yielded = {b \in DOMAIN task : task[b] # "none"}
    /\ IF pool_fails # <<>>
       THEN pool_pc' = "phase2" /\ pool_pos' = 1
       ELSE pool_pc' = "done" /\ pool_pos' = 0
    /\ UNCHANGED <<pool_boards, max_workers, next_sub, task, submits, yielded,
                   pool_results, pool_fails, pool_next, pool_round,
                   notPoolVars>>

\* main thread, one iteration of "for bk_code, bk_name in fails" of a slow
\* round
PoolSlowCall ==
    /\ pool_pc = "phase2" /\ pool_pos <= Len(pool_fails)
    /\ \E df \in {"frame", "empty"} :
          IF df = "frame"
          THEN pool_results' = pool_results \cup {pool_fails[pool_pos]}
               /\ UNCHANGED pool_next
          ELSE pool_next' = Append(pool_next, pool_fails[pool_pos])
               /\ UNCHANGED pool_results
    /\ pool_pos' = pool_pos + 1
    /\ UNCHANGED <<pool_pc, pool_boards, max_workers, next_sub, task, submits,
                   yielded, pool_fails, pool_round, notPoolVars>>

\* main thread, the end of a slow round: fails = next_fails; "if not fails:
\* break"; the next round starts with next_fails = []
PoolRoundEnd ==
    /\ pool_pc = "phase2" /\ pool_pos > Len(pool_fails)
    /\ pool_fails' = pool_next
    /\ pool_next' = <<>>
    /\ pool_round' = pool_round + 1
    /\ IF pool_next = <<>> \/ pool_round + 1 = SLOW_RETRY_ROUNDS
       THEN pool_pc' = "done" /\ pool_pos' = 0
       ELSE pool_pc' = "phase2" /\ pool_pos' = 1
    /\ UNCHANGED <<pool_boards, max_workers, next_sub, task, submits, yielded,
                   pool_results, notPoolVars>>

PoolNext ==
    \/ PoolStart
    \/ Submit
    \/ SubmitDone
    \/ WorkerTakes
    \/ WorkerFinishes
    \/ Collect
    \/ CollectDone
    \/ PoolSlowCall
    \/ PoolRoundEnd

SpecPool == PoolInit /\ [][PoolNext]_vars

\* ===================== the Excel report: one sheet, upsert of a date
\* bounds of the report machine
MaxXlDates == 3
MaxXlRuns == 4

\* a column of the sheet: the header cell (row 1) is "rank", today,
\* f"{today}_info" or f"{today}_remark", or empty; by is the run that wrote
\* the cells below the header (0: never written)
Column(date, kind, by) == [date |-> date, kind |-> kind, by |-> by]
BlankCol == Column(0, "blank", 0)

\* the headers of one date's column group: date, info and remark;
\* bk_day_con.py has no remark column
GroupKinds(scr) ==
    IF scr = "bk_day_con" THEN <<"date", "info">>
    ELSE <<"date", "info", "remark">>

\* Worksheet.delete_cols(idx, amount), idx is at
delete_cols(s, at, amount) ==
    SubSeq(s, 1, at - 1) \o SubSeq(s, at + amount, Len(s))

\* Worksheet.insert_cols(idx, amount), idx is at
insert_cols(s, at, amount) ==
    SubSeq(s, 1, at - 1) \o [i \in 1..amount |-> BlankCol]
        \o SubSeq(s, at, Len(s))

\* the sheet a run works on when there was no file: bk_day_backup.py and
\* "bk_day copy.py" write the header and the rows of today first, the sheet
\* of bk_day_con.py is new and empty
first_sheet(scr, today, n) ==
    IF scr = "bk_day_con" THEN <<BlankCol>>
    ELSE <<Column(0, "rank", n)>>
            \o [i \in 1..3 |-> Column(today, GroupKinds(scr)[i], n)]

\* the upsert that only inserts
update_sheet_no_delete(scr, s, today, n) ==
    LET w == Len(GroupKinds(scr))
        s2 == insert_cols(s, 2, w)
    IN  [i \in DOMAIN s2 |->
            IF i = 1 THEN [s2[1] EXCEPT !.by = n]
            ELSE IF i <= 1 + w THEN Column(today, GroupKinds(scr)[i - 1], n)
            ELSE s2[i]]

\* "if today in header: idx = header.index(today); ws.delete_cols(idx+1, w)",
\* ws.insert_cols(2, w), the three (two) header cells, then the rows of the
\* run in columns 1 .. 1 + w
update_sheet(scr, s, today, n) ==
    LET w == Len(GroupKinds(scr))
        found == {i \in DOMAIN s : s[i].date = today /\ s[i].kind = "date"}
        s1 == IF found # {} THEN delete_cols(s, Min(found), w) ELSE s
        s2 == insert_cols(s1, 2, w)
    IN  [i \in DOMAIN s2 |->
            IF i = 1 THEN [s2[1] EXCEPT !.by = n]
            ELSE IF i <= 1 + w THEN Column(today, GroupKinds(scr)[i - 1], n)
            ELSE s2[i]]

XlInit ==
    /\ MainIdle /\ PagingIdle /\ RvIdle /\ CellIdle /\ ColIdle
    /\ LoopIdle /\ FoIdle /\ PoolIdle
    /\ xl_script \in {"bk_day_backup", "bk_day copy", "bk_day_con"}
    /\ sheet = <<>>
    /\ xl_runs = 0

\* one run of the report for the trade date today: create the workbook if
\* there is none, update the sheet, save
report_run ==
    /\ xl_script # "none"
    /\ xl_runs < MaxXlRuns
    /\ xl_runs' = xl_runs + 1
    /\ \E today \in 1..MaxXlDates :
          sheet' = update_sheet(xl_script,
                                IF sheet = <<>>
                                THEN first_sheet(xl_script, today, xl_runs + 1)
                                ELSE sheet,
                                today, xl_runs + 1)
    /\ UNCHANGED <<xl_script, mainVars, pagingVars, rvVars, cellVars, colVars,
                   loopVars, foVars, poolVars>>

SpecXl == XlInit /\ [][report_run]_vars

\* ======================================================== the claims
\* the run is over and its outcome is visible: csv is the file after the
\* run, wide the file before it
RunOver == pc = "exit"
PatchRun == branch \in {"list", "his"}

\* the encoded cell the run computed for position i of df_today
cell_new(df, i) ==
    IF script = "ind" THEN cell_new_ind(df, i) ELSE cell_new_fetch(df, i)

\* the API returned board b with a non-empty encoded cell
FetchedNonEmpty(b) ==
    \E i \in DOMAIN df_today :
        df_today[i].bk = b /\ cell_new(df_today, i) # EmptyCell

\* C1: every row_key of the CSV before a run is a row of the CSV after it
C1_RowsNeverLost ==
    RunOver => RowSet(wide) \subseteq RowSet(csv)

\* C2: in a patch run every cell of a date column other than today_col is
\* the same after the run as before it
C2_PastCellsUnchanged ==
    RunOver /\ PatchRun =>
        \A b \in RowSet(wide), d \in ColSet(wide) \ {today_col} :
            CellAt(csv, b, d) = wide.cell[b][d]

\* C3: in a patch run the today cell of a board changes only if the API
\* returned the board with a non-empty cell; otherwise it is what it was
C3_TodayCellKeptUnlessFetched ==
    RunOver /\ PatchRun =>
        \A b \in RowSet(wide) :
            ~FetchedNonEmpty(b) =>
                CellAt(csv, b, today_col) = CellAt(wide, b, today_col)

\* C4: bk_data_ind.py patch_today gives every returned board that is not a
\* row of the table it received a new row, after the existing rows: the
\* today cell holds the fetched cell, the other date cells are empty, and
\* the existing rows keep their order and their cells (the today cell
\* according to the overwrite rule)
C4_NewBoardsAppended ==
    RunOver /\ PatchRun /\ wrote /\ script = "ind" =>
        LET arg == patch_input(branch, wide, boards)
            n == Len(arg.rows)
        IN  /\ Len(csv.rows) >= n
            /\ SubSeq(csv.rows, 1, n) = arg.rows
            /\ \A i \in DOMAIN df_today :
                 df_today[i].bk \notin RowSet(arg) =>
                    /\ df_today[i].bk \in Range(SubSeq(csv.rows, n + 1, Len(csv.rows)))
                    /\ CellAt(csv, df_today[i].bk, today_col)
                         = cell_new_ind(df_today, i)
                    /\ \A d \in ColSet(csv) \ {today_col} :
                         csv.cell[df_today[i].bk][d] = EmptyCell
            /\ \A b \in RowSet(arg) :
                 /\ \A d \in ColSet(arg) \ {today_col} :
                      csv.cell[b][d] = arg.cell[b][d]
                 /\ csv.cell[b][today_col] =
                      IF FetchedNonEmpty(b)
                      THEN cell_new_ind(df_today,
                               CHOOSE i \in DOMAIN df_today : df_today[i].bk = b)
                      ELSE CellAt(arg, b, today_col)

\* a patch of bk_data_ind.py appended a board with a non-empty cell to a
\* table that holds a recorded cell of an older date
C4_Witness ==
    /\ RunOver /\ PatchRun /\ wrote /\ script = "ind"
    /\ \E i \in DOMAIN df_today :
         /\ df_today[i].bk \notin RowSet(patch_input(branch, wide, boards))
         /\ cell_new_ind(df_today, i) # EmptyCell
    /\ \E b \in RowSet(wide), d \in ColSet(wide) \ {today_col} :
         wide.cell[b][d] # EmptyCell

\* C5: a list-mode patch of bk_fetch_data.py leaves a row for every board
\* the API returned
C5_FetchAppendsNewBoards ==
    RunOver /\ branch = "list" /\ script = "fetch" /\ err # "list" =>
        RowKeys(df_today) \subseteq RowSet(csv)

\* the CSV a second run leaves when it takes the same path and receives
\* the same board list and the same df_today for the same today_col
SecondRun ==
    LET res == patch_today(script, patch_input(branch, csv, boards),
                           df_today, today_col)
    IN  IF df_today = <<>> \/ res.raised THEN csv ELSE res.table

\* C6: a patch run repeated with the identical snapshot for the same date
\* leaves the CSV (rows, row order, columns, column order, cells) as the
\* first of the two runs left it
C6_PatchIdempotent ==
    RunOver /\ PatchRun /\ wrote => SecondRun = csv

\* a patch that appended a row and overwrote the today cell of an old row
C6_Witness ==
    /\ RunOver /\ PatchRun /\ wrote
    /\ csv # wide
    /\ RowSet(csv) # RowSet(wide)
    /\ \E b \in RowSet(wide) : FetchedNonEmpty(b)

\* C7: list mode, the request raised or returned no boards: nothing is
\* written, the file is what it was, build_csv returns normally
C7_ListFailureKeepsFile ==
    RunOver /\ branch = "list" /\ (err = "list" \/ df_today = <<>>) =>
        /\ ~wrote
        /\ csv = wide
        /\ exit_status = "normal"

\* the list request raised over a CSV that holds a recorded today cell
C7_Witness ==
    /\ RunOver /\ branch = "list" /\ err = "list"
    /\ \E b \in RowSet(csv) : CellAt(csv, b, today_col) # EmptyCell

\* C8: a run takes the baseline path exactly when the table it read is
\* empty; a non-empty CSV stays non-empty, so once one is written no later
\* run takes the baseline path, and only the baseline path of a run that
\* found no table calls write_baseline
C8_BaselineOnce ==
    [][ /\ (pc' # "idle" => (branch' = "baseline" <=> df_empty(wide')))
        /\ (~df_empty(csv) => ~df_empty(csv'))
        /\ (~df_empty(csv) /\ pc = "idle" /\ pc' # "idle"
                => branch' \in {"list", "his"})
        /\ (csv' # csv /\ branch = "baseline" => df_empty(csv)) ]_vars

\* a his-mode run started on a CSV that an earlier run wrote
C8_Witness ==
    pc = "pass1" /\ branch = "his" /\ ~df_empty(csv) /\ runs = MaxRuns

\* C9: the date columns of the CSV are strictly ascending, none twice
C9_ColumnsAscending ==
    \A i, j \in DOMAIN csv.cols : i < j => csv.cols[i] < csv.cols[j]

\* a patch added a today column that is older than a column of the table
C9_Witness ==
    /\ RunOver /\ PatchRun /\ wrote
    /\ today_col \notin ColSet(wide)
    /\ \E d \in ColSet(wide) : d > today_col

\* C10: a run interrupted in a per-board loop still writes what it has
\* fetched: after the run the today column holds the fetched cell of every
\* board fetched before the interrupt, and an interrupted baseline has
\* written the boards fetched so far
C10_InterruptFlushes ==
    RunOver /\ INTERRUPTED /\ branch \in {"baseline", "his"} =>
        /\ branch = "his" =>
             \A i \in DOMAIN rows_today :
                cell_new(rows_today, i) # EmptyCell =>
                    CellAt(csv, rows_today[i].bk, today_col)
                        = cell_new(rows_today, i)
        /\ branch = "baseline" /\ all_rows # <<>> =>
             csv = write_baseline(script, all_rows)

\* the boards whose fetch of the first pass gave nothing
FailedInBaseline ==
    {boards[i] : i \in 1..(idx - 1)} \ {all_rows[k].bk : k \in DOMAIN all_rows}

\* C11: the second pass over the failed boards runs in the baseline build
\* and in his mode and nowhere else: when a baseline build or a his-mode
\* run ends without an interrupt, every board whose first fetch failed has
\* been fetched a second time, and list mode fetches no board a second time
C11_SecondPassModes ==
    /\ branch = "list" => pc # "pass2" /\ \A b \in Boards : tried[b] = 0
    /\ RunOver /\ ~INTERRUPTED /\ branch = "his" =>
          \A b \in Range(fails) : tried[b] = 2
    /\ RunOver /\ ~INTERRUPTED /\ branch = "baseline" =>
          \A b \in FailedInBaseline : tried[b] = 2

\* C12: the CSV is written at most once per run and the write ends the
\* run's work; until then the file is what the run read at its start, a
\* killed run leaves it so, and the next run reads the file as it is
C12_CsvIsCheckpoint ==
    [][ /\ (csv' # csv => ~wrote /\ wrote')
        /\ (~wrote /\ wrote' => pc' = "exit")
        /\ (wrote => csv' = csv)
        /\ (pc \notin {"idle", "exit"} => csv = wide)
        /\ (exit_status' = "killed" => csv' = csv)
        /\ (pc = "idle" /\ pc' # "idle" => wide' = csv) ]_vars

\* a run was killed while fetching, over a CSV that holds a recorded cell
C12_Witness ==
    /\ pc = "idle" /\ exit_status = "killed" /\ runs = MaxRuns
    /\ \E b \in RowSet(csv), d \in ColSet(csv) : csv.cell[b][d] # EmptyCell

\* C13: the paginated list fetch returns every board the provider lists
\* exactly once, whatever order the provider uses for each page request
C13_ListComplete ==
    list_pc = "done" =>
        /\ Range(rows) = listed \ {Blank}
        /\ Injective(rows)

\* build_csv of rank_get_value.py is over
RvOver == rv_pc = "exit"

\* C14: a board that fails in Phase 1 and in every slow round has been
\* retried in exactly as many slow rounds as --slow-rounds asked for
C14_SlowRoundsFromOption ==
    RvOver /\ rv_boards # <<>> =>
        \A b \in Range(rv_fails) : slow_calls[b] = slow_rounds

\* C15: when at least one board was fetched the written CSV has one row per
\* board of the board list, in list order, and the row of a board that
\* failed in Phase 1 and in every slow round is empty in every column
C15_AllBoardsAppear ==
    RvOver /\ results # <<>> =>
        /\ out_csv.exists
        /\ out_csv.rows = rv_boards
        /\ \A b \in Range(rv_fails), d \in ColSet(out_csv) :
              out_csv.cell[b][d] = EmptyCell

\* a run whose board list is not in row_key order wrote the CSV with one
\* board fetched and the other failed to the end
C15_Witness ==
    /\ RvOver /\ results # <<>> /\ rv_fails # <<>>
    /\ \E i, j \in DOMAIN rv_boards : i < j /\ rv_boards[i] > rv_boards[j]

\* C16: a re-run keeps every board row of the CSV it found and every cell
\* recorded there for a date older than a date of the new CSV
C16_RerunKeepsHistory ==
    RvOver =>
        /\ RowSet(prev_csv) \subseteq RowSet(out_csv)
        /\ \A b \in RowSet(prev_csv), d \in ColSet(prev_csv) :
              (\E d2 \in ColSet(out_csv) : d < d2)
                  /\ prev_csv.cell[b][d] # EmptyCell
              => CellAt(out_csv, b, d) = prev_csv.cell[b][d]

\* the triple a reader should recover from the written fields: the rank,
\* pct / 100 (hundredths of a percent are ten-thousandths of the
\* percentage, hence millionths of the fraction), the close
Recovered(a) ==
    Triple(a.rank,
           IF a.pct = NA THEN NA ELSE Some(a.pct[1] * 100),
           a.close)

\* C17: parse_triplet of bk_top_range.py / bk_top_rank.py on a cell of
\* bk_fetch_data.py fmt_cell gives every present field back and NaN for
\* the absent fields only
C17_TripletRoundTrip ==
    cell_pc = "parsed" /\ writer = "fetch"
        /\ reader \in {"bk_top_range", "bk_top_rank"}
    => triplet = Recovered(args)

\* C18: parse_triplet of bk_pipeline_top_con.py on a non-empty cell of
\* bk_data_ind.py with rank, pct and value present returns the first three
\* fields as (rank, pct / 100, value)
C18_PipelinePositional ==
    cell_pc = "parsed" /\ writer = "ind" /\ reader = "bk_pipeline_top_con"
        /\ args.rank # NA /\ args.pct # NA /\ args.close # NA
    => triplet = Recovered(args)

\* the fields fmt_cell of the writer w takes, in positional order
FieldsOf(w, a) ==
    IF w = "ind"
    THEN <<a.rank, a.pct, a.close, a.turnover, a.up, a.down, a.leader>>
    ELSE <<a.rank, a.pct, a.close>>

RankField(c) == IF c = EmptyCell THEN "" ELSE c[1]

\* the positions of the column whose pct is a number
Ranked == {i \in DOMAIN col_in : col_in[i].pct # NA}

\* the rank written for position i, as a number (the field is one of
\* "1" .. "n")
RankAt(i) ==
    CHOOSE r \in 1..Len(col_in) : ToString(r) = RankField(col_out[col_in[i].bk])

\* ranks 1..k for the k boards with a pct, a higher pct ranks first, a
\* board without pct has an empty rank field
RanksByPctDescending ==
    /\ \A i \in DOMAIN col_in \ Ranked : RankField(col_out[col_in[i].bk]) = ""
    /\ {RankField(col_out[col_in[i].bk]) : i \in Ranked}
          = {ToString(r) : r \in 1..Cardinality(Ranked)}
    /\ \A i, j \in Ranked :
          col_in[i].pct[1] > col_in[j].pct[1] => RankAt(i) < RankAt(j)

\* C20 as stated: ranks by pct descending in every column a run writes,
\* boards with equal pct ranked in the order of the run's input
C20_RanksTiesInInputOrder ==
    col_pc = "written" =>
        /\ RanksByPctDescending
        /\ \A i, j \in Ranked :
              i < j /\ col_in[i].pct = col_in[j].pct => RankAt(i) < RankAt(j)

\* C20, amended: ranks by pct descending in every column a run writes;
\* boards with equal pct are ranked in input order by patch_today and
\* write_baseline, and in ascending bk_code order by rank_get_value.py
C20_RanksByPct ==
    col_pc = "written" =>
        /\ RanksByPctDescending
        /\ \A i, j \in Ranked :
              /\ col_in[i].pct = col_in[j].pct
              /\ IF col_by = "rank_get_value"
                 THEN col_in[i].bk < col_in[j].bk
                 ELSE i < j
              => RankAt(i) < RankAt(j)

\* rank_get_value.py ranked two boards of equal pct that the board list
\* holds in descending bk_code order
C20_Witness ==
    /\ col_pc = "written" /\ col_by = "rank_get_value"
    /\ \E i, j \in Ranked :
          i < j /\ col_in[i].pct = col_in[j].pct
              /\ col_in[i].bk > col_in[j].bk

\* no two boards of the table t carry the same rank in the column of date d
UniqueRanks(t, d) ==
    \A b1, b2 \in RowSet(t) :
        b1 # b2 /\ RankField(CellAt(t, b1, d)) # ""
            => RankField(CellAt(t, b1, d)) # RankField(CellAt(t, b2, d))

\* C21: in every date column of the CSV no two boards carry the same rank,
\* whatever snapshots the patch runs for that date received
C21_RanksUniquePerDate ==
    \A d \in ColSet(csv) : UniqueRanks(csv, d)

\* C22: a board's kline fetch is attempted at most RETRY_TIMES times in the
\* baseline and in Pass 1 and at most RETRY_TIMES + 1 times in Pass 2; the
\* attempt that does not raise is the last one, whatever it returned; the
\* base sleep after the k-th raising attempt is 0.6 * 2^(k-1) seconds in
\* the baseline and Pass 1 and 1.0 * 2^(k-1) seconds in Pass 2
C22_RetryWithBackoff ==
    loop_pc \in {"try", "after"} =>
        /\ loop_kind \in {"baseline", "pass1"} => attempt <= 4
        /\ loop_kind = "pass2" => attempt <= 5
        /\ fetch_ok => loop_pc = "after"
        /\ attempt = Len(slept) + (IF fetch_ok THEN 1 ELSE 0)
        /\ \A k \in DOMAIN slept :
              slept[k].base = (IF loop_kind = "pass2" THEN 10 ELSE 6) * 2^(k-1)

\* in Pass 1 three attempts raised and the fourth returned no record
C22_Witness ==
    /\ loop_kind = "pass1" /\ loop_pc = "after"
    /\ Len(slept) = 3 /\ fetch_ok /\ fetch_recs = 0

\* the board of the iteration failed: every attempt raised, or the attempt
\* that returned brought no record
BoardFailed == ~fetch_ok \/ fetch_recs = 0

\* C23: in the baseline and Pass 1 loops with cooldown_after >= 1, at the
\* head of every iteration consec_fail is the number of boards that failed
\* since the last success or cooldown and 0 <= consec_fail < cooldown_after;
\* an iteration sleeps the cooldown exactly when its board failed and that
\* count reached cooldown_after, and the cooldown and a successful board
\* both leave the count at 0
C23_CooldownCounter ==
    [][(loop_kind' \in {"baseline", "pass1"} /\ cooldown_after' >= 1) =>
          /\ loop_pc' = "iter" =>
                /\ consec_fail' = TrailingFails(events')
                /\ 0 <= consec_fail' /\ consec_fail' < cooldown_after'
          /\ loop_pc = "after" /\ loop_pc' = "iter" =>
                /\ events' = events \o <<"fail", "cooldown">>
                      <=> BoardFailed
                            /\ TrailingFails(events) + 1 = cooldown_after
                /\ events' = events \o <<"fail", "cooldown">>
                      => consec_fail' = 0
                /\ ~BoardFailed => consec_fail' = 0]_vars

\* with cooldown_after = 2: two boards failed, the cooldown was slept, and a
\* third board failed
C23_Witness ==
    /\ loop_kind = "pass1" /\ cooldown_after = 2 /\ loop_pc = "iter"
    /\ events = <<"fail", "fail", "cooldown", "fail">>
    /\ consec_fail = 1

\* the boards whose Pass 1 fetch of the current run failed, in Pass 1 order
FailedInPass1 ==
    SelectSeq(boards, LAMBDA b : fetch_log[b] # <<>> /\ fetch_log[b][1] = NA)

\* C24: in his mode Pass 2 starts only without an interrupt and goes through
\* the boards whose Pass 1 fetch failed, in Pass 1 order; each of its
\* iterations fetches the next of these boards once more and, on success,
\* puts the fetched pct and close in the place of the board's placeholder
\* in rows_today, leaving every other row alone; at the write-back a board
\* that failed in both passes still has its placeholder, its new cell is
\* empty and its today cell in the CSV is the one the CSV had before the run
C24_Pass2RetriesFailed ==
    [][branch = "his" =>
          /\ pc = "pass1" /\ pc' = "pass2" =>
                ~INTERRUPTED /\ fails = FailedInPass1
          /\ pc = "pass2" /\ pc' = "pass2" /\ fetch_log' # fetch_log =>
                LET b == FailedInPass1[idx]
                    k == CHOOSE i \in DOMAIN rows_today : rows_today[i].bk = b
                    got == fetch_log'[b][2]
                IN  /\ ~INTERRUPTED
                    /\ idx' = idx + 1
                    /\ Len(fetch_log'[b]) = 2
                    /\ \A c \in Boards \ {b} : fetch_log'[c] = fetch_log[c]
                    /\ \A i \in DOMAIN rows_today \ {k} :
                          rows_today'[i] = rows_today[i]
                    /\ rows_today'[k] =
                          IF got = NA THEN rows_today[k]
                          ELSE TodayRow(b, got[1].pct, got[1].close,
                                        NA, NA, NA, NA)
          /\ pc \in {"pass1", "pass2"} /\ pc' = "exit" =>
                /\ ~INTERRUPTED =>
                      {b \in Boards : Len(fetch_log[b]) = 2}
                          = Range(FailedInPass1)
                /\ \A i \in DOMAIN rows_today :
                      fetch_log[rows_today[i].bk] = <<NA, NA>> =>
                          /\ rows_today[i] = TodayRow(rows_today[i].bk, NA, NA,
                                                      NA, NA, NA, NA)
                          /\ cell_new(rows_today, i) = EmptyCell
                          /\ CellAt(csv', rows_today[i].bk, today_col)
                                = CellAt(wide, rows_today[i].bk, today_col)]_vars

\* a his-mode run wrote the CSV: one board failed in both passes and keeps the
\* today cell the CSV had, another failed in Pass 1 and was fetched in Pass 2
C24_Witness ==
    /\ RunOver /\ branch = "his" /\ wrote /\ exit_status = "normal"
    /\ \E b1, b2 \in Boards :
          /\ fetch_log[b1] = <<NA, NA>>
          /\ CellAt(wide, b1, today_col) # EmptyCell
          /\ CellAt(csv, b1, today_col) = CellAt(wide, b1, today_col)
          /\ Len(fetch_log[b2]) = 2 /\ fetch_log[b2][1] = NA
          /\ fetch_log[b2][2] # NA /\ fetch_log[b2][2][1].pct # NA
          /\ CellAt(csv, b2, today_col) # EmptyCell

\* the answer of a request ends the paging: an empty diff, or a total that
\* the kept boards have reached
Stops(r) == r.diff_len = 0 \/ (r.total # 0 /\ r.acc >= r.total)

\* C25: a paginated list fetch ends; it issues at most max_pages requests,
\* for the pages 1, 2, 3, ... in order, none after a page with an empty diff
\* or a page with which the kept boards reached the reported total, and
\* none after an HTTP error, which raises out of the function so that no
\* list is returned
C25_PagingTerminates ==
    /\ [](/\ Len(requests) <= MaxPages
          /\ \A i \in DOMAIN requests : requests[i].pn = i
          /\ \A i \in DOMAIN requests :
                i < Len(requests) \/ list_pc = "paging"
                    => requests[i].ok /\ ~Stops(requests[i])
          /\ list_pc = "done" => \A i \in DOMAIN requests : requests[i].ok
          /\ list_pc = "raised" =>
                ~requests[Len(requests)].ok /\ rows = <<>>)
    /\ (list_pc = "paging" ~> list_pc \in {"done", "raised"})

\* the first page was answered and kept, the request of the second page
\* failed
C25_Witness ==
    /\ list_pc = "raised" /\ Len(requests) = 2
    /\ requests[1].ok /\ requests[1].acc > 0

\* C27: fetch_one_board never raises; it makes at most RETRY_TIMES attempts,
\* RETRY_TIMES + 2 in slow mode; every attempt that fails is followed by a
\* sleep of BACKOFF_BASE * 2^attempt, plus SLOW_SLEEP_BETWEEN_CALLS in slow
\* mode; it returns the frame at the first attempt that has records, and the
\* empty DataFrame when every attempt failed
C27_FetchOneBoard ==
    /\ fo_pc # "raised"
    /\ Len(fo_log) <= (IF slow_mode THEN 6 ELSE 4)
    /\ \A i \in DOMAIN fo_log :
          /\ i < Len(fo_log) => ~fo_log[i].recs
          /\ ~fo_log[i].recs =>
                fo_log[i].slept = 6 * 2^(i - 1) + (IF slow_mode THEN 9 ELSE 0)
    /\ fo_pc = "try" => \A i \in DOMAIN fo_log : ~fo_log[i].recs
    /\ fo_pc = "returned" =>
          /\ fo_df = "frame" <=> fo_log[Len(fo_log)].recs
          /\ fo_df = "empty" <=>
                /\ Len(fo_log) = (IF slow_mode THEN 6 ELSE 4)
                /\ \A i \in DOMAIN fo_log : ~fo_log[i].recs

\* a slow-mode call: an HTTP or parse error, empty klines and a failing
\* fallback in the first five attempts, then the sixth attempt got its
\* records from the fallback
C27_Witness ==
    /\ fo_pc = "returned" /\ slow_mode /\ fo_df = "frame"
    /\ Len(fo_log) = 6
    /\ fo_log[1].lmt = "raise"
    /\ fo_log[2].lmt = "empty" /\ fo_log[2].beg = "empty"
    /\ fo_log[5].lmt = "allnan" /\ fo_log[5].beg = "raise"
    /\ fo_log[5].slept = 105
    /\ fo_log[6].lmt = "allnan" /\ fo_log[6].beg = "recs"

\* results and fails split the board list: every board is in exactly one of
\* them, and fails holds no board twice
Partition ==
    /\ pool_results \cup Range(pool_fails) = Range(pool_boards)
    /\ pool_results \cap Range(pool_fails) = {}
    /\ Injective(pool_fails)

\* C26: in every interleaving of the main thread and the workers each listed
\* board is submitted exactly once, only steps of the main thread change
\* results and fails, at the end of Phase 1 every board is in exactly one of
\* results (its df is not empty) and fails (its df is empty), and at the end
\* of each slow round of Phase 2 results and fails still split the board list
\* and fails is not longer than before
C26_PoolPartition ==
    /\ [](/\ \A b \in DOMAIN submits : submits[b] <= 1
          /\ pool_pc \in {"collect", "phase2", "done"} =>
                \A b \in Range(pool_boards) : submits[b] = 1)
    /\ [][/\ pool_results' # pool_results \/ pool_fails' # pool_fails =>
                task' = task
          /\ pool_pc = "collect" /\ pool_pc' # "collect" =>
                /\ Partition'
                /\ pool_results' = Futures("frame")
                /\ Range(pool_fails') = Futures("empty")
          /\ pool_round' = pool_round + 1 =>
                Partition' /\ Len(pool_fails') <= Len(pool_fails)]_vars

\* a pool of two workers and three boards: the first and the last board
\* came back empty, and the first slow round moved the first board from
\* fails to results
C26_Witness ==
    /\ pool_pc = "phase2" /\ pool_round = 1 /\ max_workers = 2
    /\ Len(pool_boards) = 3
    /\ pool_fails = <<pool_boards[3]>>
    /\ Futures("empty") = {pool_boards[3], pool_boards[1]}
    /\ pool_boards[1] \in pool_results

\* the columns of the sheet s that belong to a date other than d, in order
OtherGroups(s, d) ==
    SelectSeq(s, LAMBDA c : c.date # 0 /\ c.date # d)

\* C28: in the header row of the sheet every trade date occurs at most once;
\* a run for the date d leaves d's column group in the columns from 2 on,
\* written by that run, and nowhere else, and the columns of every other
\* date are after the run what they were before it, cells and order
C28_UpsertByDate ==
    /\ [](\A i, j \in DOMAIN sheet :
              /\ sheet[i].date # 0 /\ sheet[i].date = sheet[j].date
              /\ sheet[i].kind = sheet[j].kind
              => i = j)
    /\ [][xl_runs' = xl_runs + 1 =>
              LET d == sheet'[2].date
                  w == Len(GroupKinds(xl_script))
              IN  /\ \A k \in 1..w :
                        sheet'[1 + k]
                            = Column(d, GroupKinds(xl_script)[k], xl_runs')
                  /\ \A i \in DOMAIN sheet' :
                        sheet'[i].date = d => i \in 2..(1 + w)
                  /\ OtherGroups(sheet', d) = OtherGroups(sheet, d)]_vars

\* a run for a date whose column group stood between the groups of two
\* other dates: the group is at column 2 again, the other two follow
C28_Witness ==
    /\ xl_runs = 4 /\ xl_script = "bk_day_backup" /\ Len(sheet) = 10
    /\ sheet[2].date = 2 /\ sheet[2].by = 4
    /\ sheet[5].date = 3 /\ sheet[5].by = 3
    /\ sheet[8].date = 1 /\ sheet[8].by = 1
====
